---- MODULE Spec2Model ----
(***************************************************************************)
(* Traffic signal decision engine (module_2_signal_logic): the Lane Timing *)
(* Store (core/state_store.py), the Priority Engine                        *)
(* (core/priority_engine.py), the Cycle Scheduler (core/scheduler.py), the *)
(* JSON persistence sink (adapters/persistence.py) and the Signal          *)
(* Controller (services/signal_service.py).                                *)
(*                                                                         *)
(* Datetimes are integer seconds.  Python floats are exact rationals       *)
(* [n |-> numerator, d |-> denominator > 0] in lowest terms.  An Optional  *)
(* value is a sequence of length 0 (None) or 1.  A dict whose key order is *)
(* observable (lane_counts feeds ensure_lanes) carries its key order.      *)
(***************************************************************************)
EXTENDS Integers, Sequences, FiniteSets, TLC

\* ------------------------------------------------------------------------
\* Bounds of the model.
\* ------------------------------------------------------------------------
MaxNow == 2
MaxCycles == 2
MaxWait == 2
MaxCalls == 3
MaxStale == 1
MaxFaults == 1

\* ------------------------------------------------------------------------
\* Optional values and Python truthiness.
\* ------------------------------------------------------------------------
None == <<>>

Some(x) == <<x>>

IsNone(o) == Len(o) = 0

Get(o) == o[1]

\* bool(x) of an Optional[str]: None and the empty string are falsy.
Truthy(o) == Len(o) > 0 /\ o[1] # ""

\* ------------------------------------------------------------------------
\* Exact rational arithmetic standing for the float arithmetic of the code.
\* ------------------------------------------------------------------------
Abs(x) == IF x < 0 THEN 0 - x ELSE x

RECURSIVE Gcd(_, _)
Gcd(a, b) == IF b = 0 THEN a ELSE Gcd(b, a % b)

Rat(n, d) ==
    LET s == IF d < 0 THEN 0 - 1 ELSE 1
        g == Gcd(Abs(n), Abs(d))
    IN  [n |-> (s * n) \div g, d |-> (s * d) \div g]

FromInt(i) == [n |-> i, d |-> 1]

RAdd(a, b) == Rat(a.n * b.d + b.n * a.d, a.d * b.d)

RSub(a, b) == Rat(a.n * b.d - b.n * a.d, a.d * b.d)

RMul(a, b) == Rat(a.n * b.n, a.d * b.d)

RDiv(a, b) == Rat(a.n * b.d, a.d * b.n)

RLt(a, b) == a.n * b.d < b.n * a.d

RLe(a, b) == a.n * b.d <= b.n * a.d

RMax(a, b) == IF RLt(a, b) THEN b ELSE a

RMin(a, b) == IF RLt(b, a) THEN b ELSE a

Max(a, b) == IF a < b THEN b ELSE a

Min(a, b) == IF b < a THEN b ELSE a

\* ------------------------------------------------------------------------
\* Sequence helpers.
\* ------------------------------------------------------------------------
Range(s) == {s[i] : i \in 1..Len(s)}

Contains(s, x) == \E i \in 1..Len(s) : s[i] = x

\* "for lane in lanes: if lane not in self._lanes: self._lanes.append(lane)"
RECURSIVE AppendUnseen(_, _)
AppendUnseen(tracked, lanes) ==
    IF Len(lanes) = 0 THEN tracked
    ELSE AppendUnseen(IF Contains(tracked, Head(lanes)) THEN tracked
                      ELSE Append(tracked, Head(lanes)),
                      Tail(lanes))

\* dict.get(key, default)
DictGet(f, k, default) == IF k \in DOMAIN f THEN f[k] ELSE default

EmptyDict == [k \in {} |-> 0]

\* ------------------------------------------------------------------------
\* Lane Timing Store (core/state_store.py).
\* A store is [lanes, waiting_times, cooldowns, cooldown_duration,
\*             current_green, current_green_started_at].
\* ------------------------------------------------------------------------
\* Variant of StateStore.reset that also forgets the tracked lanes.
StateStore_reset_dropping_lanes(store) ==
    [store EXCEPT !.lanes = <<>>,
                  !.current_green = None,
                  !.current_green_started_at = None,
                  !.waiting_times = EmptyDict,
                  !.cooldowns = EmptyDict]

StateStore_reset(store) ==
    [store EXCEPT !.current_green = None,
                  !.current_green_started_at = None,
                  !.waiting_times = [l \in Range(store.lanes) |-> 0],
                  !.cooldowns = [l \in Range(store.lanes) |-> 0]]

StateStore_init(lanes, cooldown_duration) ==
    StateStore_reset(
        [lanes |-> AppendUnseen(<<>>, lanes),
         cooldown_duration |-> Max(cooldown_duration, 0),
         current_green |-> None,
         current_green_started_at |-> None,
         waiting_times |-> EmptyDict,
         cooldowns |-> EmptyDict])

\* Variant of ensure_lanes that appends every lane it is given, tracked or not.
ensure_lanes_appending(store, lanes) ==
    LET tracked == store.lanes \o lanes
    IN  [store EXCEPT
             !.lanes = tracked,
             !.waiting_times = [l \in Range(tracked) |->
                                   DictGet(store.waiting_times, l, 0)],
             !.cooldowns = [l \in Range(tracked) |->
                               DictGet(store.cooldowns, l, 0)]]

ensure_lanes(store, lanes) ==
    LET tracked == AppendUnseen(store.lanes, lanes)
    IN  [store EXCEPT
             !.lanes = tracked,
             !.waiting_times = [l \in Range(tracked) |->
                                   DictGet(store.waiting_times, l, 0)],
             !.cooldowns = [l \in Range(tracked) |->
                               DictGet(store.cooldowns, l, 0)]]

\* Variant of tick that adds one second to the waiting times whatever the delta.
tick_by_one(store, delta_seconds) ==
    IF delta_seconds <= 0 THEN store
    ELSE [store EXCEPT
              !.waiting_times = [l \in Range(store.lanes) |->
                  IF Some(l) # store.current_green
                  THEN store.waiting_times[l] + 1
                  ELSE 0],
              !.cooldowns = [l \in Range(store.lanes) |->
                  IF store.cooldowns[l] > 0
                  THEN Max(0, store.cooldowns[l] - delta_seconds)
                  ELSE store.cooldowns[l]]]

\* Variant of tick without the "delta_seconds <= 0" early return.
tick_unguarded(store, delta_seconds) ==
    [store EXCEPT
         !.waiting_times = [l \in Range(store.lanes) |->
             IF Some(l) # store.current_green
             THEN store.waiting_times[l] + delta_seconds
             ELSE 0],
         !.cooldowns = [l \in Range(store.lanes) |->
             IF store.cooldowns[l] > 0
             THEN Max(0, store.cooldowns[l] - delta_seconds)
             ELSE store.cooldowns[l]]]

\* Variant of tick that lets the green lane's waiting time grow like the others.
tick_no_pin(store, delta_seconds) ==
    IF delta_seconds <= 0 THEN store
    ELSE [store EXCEPT
              !.waiting_times = [l \in Range(store.lanes) |->
                  store.waiting_times[l] + delta_seconds],
              !.cooldowns = [l \in Range(store.lanes) |->
                  IF store.cooldowns[l] > 0
                  THEN Max(0, store.cooldowns[l] - delta_seconds)
                  ELSE store.cooldowns[l]]]

\* Variant of tick that decays the cooldown without the floor at 0.
tick_no_floor(store, delta_seconds) ==
    IF delta_seconds <= 0 THEN store
    ELSE [store EXCEPT
              !.waiting_times = [l \in Range(store.lanes) |->
                  IF Some(l) # store.current_green
                  THEN store.waiting_times[l] + delta_seconds
                  ELSE 0],
              !.cooldowns = [l \in Range(store.lanes) |->
                  IF store.cooldowns[l] > 0
                  THEN store.cooldowns[l] - delta_seconds
                  ELSE store.cooldowns[l]]]

tick(store, delta_seconds) ==
    IF delta_seconds <= 0 THEN store
    ELSE [store EXCEPT
              !.waiting_times = [l \in Range(store.lanes) |->
                  IF Some(l) # store.current_green
                  THEN store.waiting_times[l] + delta_seconds
                  ELSE 0],
              !.cooldowns = [l \in Range(store.lanes) |->
                  IF store.cooldowns[l] > 0
                  THEN Max(0, store.cooldowns[l] - delta_seconds)
                  ELSE store.cooldowns[l]]]

\* Variant of mark_green that restarts the waiting time of every lane.
mark_green_zeroing_all(store, lane, timestamp) ==
    IF ~Contains(store.lanes, lane) THEN store
    ELSE [store EXCEPT
              !.current_green = Some(lane),
              !.current_green_started_at = Some(timestamp),
              !.waiting_times = [l \in Range(store.lanes) |-> 0],
              !.cooldowns = [l \in Range(store.lanes) |->
                  IF l = lane THEN store.cooldown_duration
                  ELSE store.cooldowns[l]]]

\* Variant of mark_green without the "lane not in self._lanes" check.
mark_green_unchecked(store, lane, timestamp) ==
    [store EXCEPT
         !.current_green = Some(lane),
         !.current_green_started_at = Some(timestamp),
         !.waiting_times = [l \in Range(store.lanes) |->
             IF l = lane THEN 0 ELSE store.waiting_times[l]],
         !.cooldowns = [l \in Range(store.lanes) |->
             IF l = lane THEN store.cooldown_duration
             ELSE store.cooldowns[l]]]

\* mark_green raises ValueError for an untracked lane, before any assignment.
mark_green_raises(store, lane) == ~Contains(store.lanes, lane)

mark_green(store, lane, timestamp) ==
    IF mark_green_raises(store, lane) THEN store
    ELSE [store EXCEPT
              !.current_green = Some(lane),
              !.current_green_started_at = Some(timestamp),
              !.waiting_times = [l \in Range(store.lanes) |->
                  IF l = lane THEN 0 ELSE store.waiting_times[l]],
              !.cooldowns = [l \in Range(store.lanes) |->
                  IF l = lane THEN store.cooldown_duration
                  ELSE store.cooldowns[l]]]

\* ------------------------------------------------------------------------
\* Priority Engine (core/priority_engine.py).
\* An engine is its five weights; a breakdown is a PriorityBreakdown.
\* ------------------------------------------------------------------------
PriorityEngine_init(density_weight, wait_weight, cooldown_penalty, gap_weight, forecast_weight) ==
    [density_weight |-> density_weight, wait_weight |-> wait_weight,
     cooldown_penalty |-> cooldown_penalty, gap_weight |-> gap_weight,
     forecast_weight |-> forecast_weight]

\* (item.score, item.waiting_time, item.vehicle_count) compared as tuples.
KeyGreater(a, b) ==
    \/ RLt(b.score, a.score)
    \/ /\ a.score = b.score
       /\ \/ a.waiting_time > b.waiting_time
          \/ /\ a.waiting_time = b.waiting_time
             /\ a.vehicle_count > b.vehicle_count

KeyGe(a, b) == ~KeyGreater(b, a)

\* Variant of InsertDesc that puts x before the entries with an equal key.
RECURSIVE InsertDesc_before_equal(_, _)
InsertDesc_before_equal(sorted, x) ==
    IF Len(sorted) = 0 THEN <<x>>
    ELSE IF KeyGreater(Head(sorted), x)
         THEN <<Head(sorted)>> \o InsertDesc_before_equal(Tail(sorted), x)
         ELSE <<x>> \o sorted

\* One step of a stable descending sort: x goes after every entry whose key
\* is not smaller, so entries with equal keys keep their input order.
RECURSIVE InsertDesc(_, _)
InsertDesc(sorted, x) ==
    IF Len(sorted) = 0 THEN <<x>>
    ELSE IF KeyGe(Head(sorted), x)
         THEN <<Head(sorted)>> \o InsertDesc(Tail(sorted), x)
         ELSE <<x>> \o sorted

\* sorted(items, key=..., reverse=True) and list.sort(key=..., reverse=True)
RECURSIVE SortedDesc(_)
SortedDesc(items) ==
    IF Len(items) = 0 THEN <<>>
    ELSE InsertDesc(SortedDesc(SubSeq(items, 1, Len(items) - 1)),
                    items[Len(items)])

\* Variant of score_one that does not clamp the vehicle count at 0.
score_one_unclamped_count(engine, lane, snapshot, waiting_times, recent_cooldowns, vehicle_gaps, forecasts) ==
    LET vehicle_count == DictGet(snapshot.lane_counts, lane, 0)
        waiting_time == Max(DictGet(waiting_times, lane, 0), 0)
        penalty_seconds == Max(DictGet(recent_cooldowns, lane, 0), 0)
        gap_seconds == Max(DictGet(vehicle_gaps, lane, 0), 0)
        gap_component == RDiv(engine.gap_weight, FromInt(1 + gap_seconds))
        forecast_count == RMax(DictGet(forecasts, lane, FromInt(0)), FromInt(0))
        score ==
            RSub(RAdd(RAdd(RAdd(RMul(FromInt(vehicle_count), engine.density_weight),
                                RMul(FromInt(waiting_time), engine.wait_weight)),
                           gap_component),
                      RMul(forecast_count, engine.forecast_weight)),
                 RMul(FromInt(penalty_seconds), engine.cooldown_penalty))
    IN  [lane |-> lane,
         vehicle_count |-> vehicle_count,
         waiting_time |-> waiting_time,
         cooldown_penalty |-> penalty_seconds,
         vehicle_gap |-> gap_seconds,
         forecast_count |-> forecast_count,
         score |-> score]

score_one(engine, lane, snapshot, waiting_times, recent_cooldowns, vehicle_gaps, forecasts) ==
    LET vehicle_count == Max(DictGet(snapshot.lane_counts, lane, 0), 0)
        waiting_time == Max(DictGet(waiting_times, lane, 0), 0)
        penalty_seconds == Max(DictGet(recent_cooldowns, lane, 0), 0)
        gap_seconds == Max(DictGet(vehicle_gaps, lane, 0), 0)
        gap_component == RDiv(engine.gap_weight, FromInt(1 + gap_seconds))
        forecast_count == RMax(DictGet(forecasts, lane, FromInt(0)), FromInt(0))
        score ==
            RSub(RAdd(RAdd(RAdd(RMul(FromInt(vehicle_count), engine.density_weight),
                                RMul(FromInt(waiting_time), engine.wait_weight)),
                           gap_component),
                      RMul(forecast_count, engine.forecast_weight)),
                 RMul(FromInt(penalty_seconds), engine.cooldown_penalty))
    IN  [lane |-> lane,
         vehicle_count |-> vehicle_count,
         waiting_time |-> waiting_time,
         cooldown_penalty |-> penalty_seconds,
         vehicle_gap |-> gap_seconds,
         forecast_count |-> forecast_count,
         score |-> score]

score_lanes(engine, lanes, snapshot, waiting_times, recent_cooldowns, vehicle_gaps, forecasts) ==
    SortedDesc([i \in 1..Len(lanes) |->
        score_one(engine, lanes[i], snapshot, waiting_times,
                  recent_cooldowns, vehicle_gaps, forecasts)])

\* ------------------------------------------------------------------------
\* Cycle Scheduler (core/scheduler.py).
\* A scheduler is [config, cycle_counter, last_green_lane].
\* ------------------------------------------------------------------------
SchedulerConfig(base_green, min_green, max_green, scaling_factor) ==
    [base_green |-> base_green, min_green |-> min_green,
     max_green |-> max_green, scaling_factor |-> scaling_factor]

SignalScheduler_init(config) ==
    [config |-> config, cycle_counter |-> 0, last_green_lane |-> None]

RECURSIVE SumCounts(_)
SumCounts(priorities) ==
    IF Len(priorities) = 0 THEN 0
    ELSE Max(Head(priorities).vehicle_count, 0) + SumCounts(Tail(priorities))

\* "if not priorities: raise ValueError"
next_cycle_raises(priorities) == Len(priorities) = 0

\* Lines 36-47: rank, then skip the top lane when it was the last green one.
select_lane(last_green_lane, ordered_priorities) ==
    IF /\ Truthy(last_green_lane)
       /\ ordered_priorities[1].lane = Get(last_green_lane)
       /\ Len(ordered_priorities) > 1
    THEN ordered_priorities[2]
    ELSE ordered_priorities[1]

\* Variant of green_duration_of without the cap at max_green.
green_duration_no_cap(config, top_breakdown, priorities) ==
    LET total_vehicles == SumCounts(priorities)
        ratio == IF total_vehicles # 0
                 THEN Rat(top_breakdown.vehicle_count, total_vehicles)
                 ELSE FromInt(0)
        proposed_green == RAdd(FromInt(config.base_green),
                               RMul(ratio, FromInt(config.scaling_factor)))
    IN  RMax(FromInt(config.min_green), proposed_green)

\* Lines 49-53: the clamped green duration.
green_duration_of(config, top_breakdown, priorities) ==
    LET total_vehicles == SumCounts(priorities)
        ratio == IF total_vehicles # 0
                 THEN Rat(top_breakdown.vehicle_count, total_vehicles)
                 ELSE FromInt(0)
        proposed_green == RAdd(FromInt(config.base_green),
                               RMul(ratio, FromInt(config.scaling_factor)))
    IN  RMax(FromInt(config.min_green),
             RMin(FromInt(config.max_green), proposed_green))

\* Variant of next_cycle_decision that sizes the green time by the top-ranked
\* lane even when anti-starvation chose the second one.
next_cycle_decision_top_count(sched, priorities, decided_at) ==
    LET ordered_priorities == SortedDesc(priorities)
        top_breakdown == select_lane(sched.last_green_lane, ordered_priorities)
        green_duration == green_duration_of(sched.config, ordered_priorities[1], priorities)
    IN  [cycle_id |-> sched.cycle_counter + 1,
         decided_at |-> decided_at,
         green_lane |-> top_breakdown.lane,
         green_duration |-> green_duration,
         priorities |-> ordered_priorities,
         effective_from |-> decided_at,
         effective_until |-> RAdd(FromInt(decided_at), green_duration)]

\* The decision next_cycle returns, for non-empty priorities.
next_cycle_decision(sched, priorities, decided_at) ==
    LET ordered_priorities == SortedDesc(priorities)
        top_breakdown == select_lane(sched.last_green_lane, ordered_priorities)
        green_duration == green_duration_of(sched.config, top_breakdown, priorities)
    IN  [cycle_id |-> sched.cycle_counter + 1,
         decided_at |-> decided_at,
         green_lane |-> top_breakdown.lane,
         green_duration |-> green_duration,
         priorities |-> ordered_priorities,
         effective_from |-> decided_at,
         effective_until |-> RAdd(FromInt(decided_at), green_duration)]

\* Variant of next_cycle_scheduler that advances the counter by two.
next_cycle_scheduler_skipping(sched, priorities, decided_at) ==
    IF next_cycle_raises(priorities) THEN sched
    ELSE [sched EXCEPT
              !.last_green_lane =
                  Some(next_cycle_decision(sched, priorities, decided_at).green_lane),
              !.cycle_counter = sched.cycle_counter + 2]

\* The scheduler after next_cycle: unchanged when the call raises.
next_cycle_scheduler(sched, priorities, decided_at) ==
    IF next_cycle_raises(priorities) THEN sched
    ELSE [sched EXCEPT
              !.last_green_lane =
                  Some(next_cycle_decision(sched, priorities, decided_at).green_lane),
              !.cycle_counter = sched.cycle_counter + 1]

\* ------------------------------------------------------------------------
\* Persistence sink (adapters/persistence.py).
\* A file is [kind, content]: kind "absent", "json" (content is the parsed
\* document) or "corrupt" (unparseable, e.g. truncated by a failed write).
\* A write_text call either succeeds, or raises OSError leaving the file as
\* it was, or raises after the open has truncated it.
\* ------------------------------------------------------------------------
AbsentFile == [kind |-> "absent", content |-> <<>>]

CorruptFile == [kind |-> "corrupt", content |-> <<>>]

JsonFile(doc) == [kind |-> "json", content |-> doc]

\* Module 1's OutputManager: its settings.flush_every_n_frames, its record
\* buffer, whether flush() has opened the results file and not yet written
\* it, and the results file.  The constructor removes a results file left by
\* an earlier run.
OutputManager_init(flush_every_n_frames) ==
    [flush_every_n_frames |-> flush_every_n_frames, records |-> <<>>, flush_counter |-> 0,
     flushing |-> FALSE, results_file |-> AbsentFile]

IoOutcomes == {"ok", "raises", "raises_truncated"}

write_text(file, doc, io) ==
    CASE io = "ok" -> JsonFile(doc)
      [] io = "raises" -> file
      [] OTHER -> CorruptFile

\* read_text of line 28 either returns the text or raises OSError.
ReadOutcomes == {"ok", "raises"}

\* Lines 25-30: the list append_history extends.  A file that does not exist
\* is not read; a read that raises OSError and a text that does not parse
\* both leave existing = [].
existing_history_read(history_file, io_read) ==
    IF history_file.kind = "json" /\ io_read = "ok" THEN history_file.content ELSE <<>>

existing_history(history_file) == existing_history_read(history_file, "ok")

append_history_read(pers, decisions, io_read, io) ==
    IF Len(decisions) = 0 THEN pers
    ELSE [pers EXCEPT !.history_file =
             write_text(pers.history_file,
                        existing_history_read(pers.history_file, io_read) \o decisions, io)]

\* append_history on a disk whose reads succeed.
append_history(pers, decisions, io) == append_history_read(pers, decisions, "ok", io)

save_state(pers, state, io) ==
    [pers EXCEPT !.state_file = write_text(pers.state_file, state, io)]

clear_history(pers, io) ==
    [pers EXCEPT !.history_file = write_text(pers.history_file, <<>>, io)]

\* ------------------------------------------------------------------------
\* Signal Controller (services/signal_service.py).
\* The operators below work on sys = [store, sched, svc, pers], the objects
\* one SignalService owns, and return the record after the call.
\* ------------------------------------------------------------------------
SignalService_init(telemetry_stale_after, forecast_horizon, forecast_smoothing) ==
    [telemetry_stale_after |-> Max(telemetry_stale_after, 0),
     forecast_horizon |-> Max(forecast_horizon, 0),
     forecast_smoothing |-> RMin(RMax(forecast_smoothing, FromInt(0)), FromInt(1)),
     history |-> <<>>,
     last_tick_at |-> None,
     active_decision |-> None,
     last_priorities |-> <<>>,
     last_snapshot |-> None,
     lane_totals |-> EmptyDict,
     lane_last_activity |-> EmptyDict,
     lane_gaps |-> EmptyDict,
     lane_total_timestamp |-> EmptyDict,
     lane_arrival_rate |-> EmptyDict,
     lane_forecast |-> EmptyDict,
     stale_incidents |-> 0]

\* Variant of _apply_tick whose first call ticks from time 0 instead of only
\* recording the baseline.
apply_tick_without_baseline(sys, now) ==
    LET delta_seconds == IF IsNone(sys.svc.last_tick_at) THEN now
                         ELSE now - Get(sys.svc.last_tick_at)
    IN  [sys EXCEPT
             !.store = IF delta_seconds > 0 THEN tick(sys.store, delta_seconds)
                       ELSE sys.store,
             !.svc.last_tick_at = Some(now)]

apply_tick(sys, now) ==
    IF IsNone(sys.svc.last_tick_at)
    THEN [sys EXCEPT !.svc.last_tick_at = Some(now)]
    ELSE LET delta_seconds == now - Get(sys.svc.last_tick_at)
         IN  [sys EXCEPT
                  !.store = IF delta_seconds > 0 THEN tick(sys.store, delta_seconds)
                            ELSE sys.store,
                  !.svc.last_tick_at = Some(now)]

\* Variant of lane_activity whose first smoothed rate is blended with 0.
lane_activity_seeded_zero(svc, snapshot, lane) ==
    LET previous_total == DictGet(svc.lane_totals, lane, 0)
        current_total == Max(DictGet(snapshot.totals, lane, previous_total), 0)
        previous_timestamp == DictGet(svc.lane_total_timestamp, lane, snapshot.timestamp)
        delta_seconds == Max(snapshot.timestamp - previous_timestamp, 0)
        delta_total == Max(current_total - previous_total, 0)
        known_activity == DictGet(svc.lane_last_activity, lane, snapshot.timestamp)
        changed == current_total < previous_total \/ current_total > previous_total
        last_activity == IF changed THEN snapshot.timestamp ELSE known_activity
        gap_seconds == IF changed THEN 0
                       ELSE Max(0, snapshot.timestamp - known_activity)
        rated == svc.forecast_horizon > 0 /\ delta_seconds > 0
        observed_rate == Rat(delta_total, IF delta_seconds > 0 THEN delta_seconds ELSE 1)
        prior_rate == DictGet(svc.lane_arrival_rate, lane, FromInt(0))
        alpha == svc.forecast_smoothing
        blended_rate == RAdd(RMul(alpha, observed_rate),
                             RMul(RSub(FromInt(1), alpha), prior_rate))
    IN  [total |-> current_total,
         last_activity |-> last_activity,
         gap |-> gap_seconds,
         rated |-> rated,
         rate |-> blended_rate,
         forecast |-> IF rated THEN RMul(blended_rate, FromInt(svc.forecast_horizon))
                      ELSE DictGet(svc.lane_forecast, lane, FromInt(0)),
         total_timestamp |-> snapshot.timestamp]

\* Variant of lane_activity in which only an increase of the total is activity.
lane_activity_increase_only(svc, snapshot, lane) ==
    LET previous_total == DictGet(svc.lane_totals, lane, 0)
        current_total == Max(DictGet(snapshot.totals, lane, previous_total), 0)
        previous_timestamp == DictGet(svc.lane_total_timestamp, lane, snapshot.timestamp)
        delta_seconds == Max(snapshot.timestamp - previous_timestamp, 0)
        delta_total == Max(current_total - previous_total, 0)
        known_activity == DictGet(svc.lane_last_activity, lane, snapshot.timestamp)
        changed == current_total > previous_total
        last_activity == IF changed THEN snapshot.timestamp ELSE known_activity
        gap_seconds == IF changed THEN 0
                       ELSE Max(0, snapshot.timestamp - known_activity)
        rated == svc.forecast_horizon > 0 /\ delta_seconds > 0
        observed_rate == Rat(delta_total, IF delta_seconds > 0 THEN delta_seconds ELSE 1)
        prior_rate == DictGet(svc.lane_arrival_rate, lane, observed_rate)
        alpha == svc.forecast_smoothing
        blended_rate == RAdd(RMul(alpha, observed_rate),
                             RMul(RSub(FromInt(1), alpha), prior_rate))
    IN  [total |-> current_total,
         last_activity |-> last_activity,
         gap |-> gap_seconds,
         rated |-> rated,
         rate |-> blended_rate,
         forecast |-> IF rated THEN RMul(blended_rate, FromInt(svc.forecast_horizon))
                      ELSE DictGet(svc.lane_forecast, lane, FromInt(0)),
         total_timestamp |-> snapshot.timestamp]

\* Variant of lane_activity that updates the rate without elapsed time too.
lane_activity_rating_always(svc, snapshot, lane) ==
    LET previous_total == DictGet(svc.lane_totals, lane, 0)
        current_total == Max(DictGet(snapshot.totals, lane, previous_total), 0)
        previous_timestamp == DictGet(svc.lane_total_timestamp, lane, snapshot.timestamp)
        delta_seconds == Max(snapshot.timestamp - previous_timestamp, 0)
        delta_total == Max(current_total - previous_total, 0)
        known_activity == DictGet(svc.lane_last_activity, lane, snapshot.timestamp)
        changed == current_total < previous_total \/ current_total > previous_total
        last_activity == IF changed THEN snapshot.timestamp ELSE known_activity
        gap_seconds == IF changed THEN 0
                       ELSE Max(0, snapshot.timestamp - known_activity)
        rated == svc.forecast_horizon > 0
        observed_rate == Rat(delta_total, IF delta_seconds > 0 THEN delta_seconds ELSE 1)
        prior_rate == DictGet(svc.lane_arrival_rate, lane, observed_rate)
        alpha == svc.forecast_smoothing
        blended_rate == RAdd(RMul(alpha, observed_rate),
                             RMul(RSub(FromInt(1), alpha), prior_rate))
    IN  [total |-> current_total,
         last_activity |-> last_activity,
         gap |-> gap_seconds,
         rated |-> rated,
         rate |-> blended_rate,
         forecast |-> IF rated THEN RMul(blended_rate, FromInt(svc.forecast_horizon))
                      ELSE DictGet(svc.lane_forecast, lane, FromInt(0)),
         total_timestamp |-> snapshot.timestamp]

\* Lines 78-106 for one lane: the lane's new entries in the six per-lane maps.
lane_activity(svc, snapshot, lane) ==
    LET previous_total == DictGet(svc.lane_totals, lane, 0)
        current_total == Max(DictGet(snapshot.totals, lane, previous_total), 0)
        previous_timestamp == DictGet(svc.lane_total_timestamp, lane, snapshot.timestamp)
        delta_seconds == Max(snapshot.timestamp - previous_timestamp, 0)
        delta_total == Max(current_total - previous_total, 0)
        known_activity == DictGet(svc.lane_last_activity, lane, snapshot.timestamp)
        changed == current_total < previous_total \/ current_total > previous_total
        last_activity == IF changed THEN snapshot.timestamp ELSE known_activity
        gap_seconds == IF changed THEN 0
                       ELSE Max(0, snapshot.timestamp - known_activity)
        rated == svc.forecast_horizon > 0 /\ delta_seconds > 0
        observed_rate == Rat(delta_total, IF delta_seconds > 0 THEN delta_seconds ELSE 1)
        prior_rate == DictGet(svc.lane_arrival_rate, lane, observed_rate)
        alpha == svc.forecast_smoothing
        blended_rate == RAdd(RMul(alpha, observed_rate),
                             RMul(RSub(FromInt(1), alpha), prior_rate))
    IN  [total |-> current_total,
         last_activity |-> last_activity,
         gap |-> gap_seconds,
         rated |-> rated,
         rate |-> blended_rate,
         forecast |-> IF rated THEN RMul(blended_rate, FromInt(svc.forecast_horizon))
                      ELSE DictGet(svc.lane_forecast, lane, FromInt(0)),
         total_timestamp |-> snapshot.timestamp]

update_lane_activity(sys, snapshot) ==
    LET svc == sys.svc
        lanes == Range(sys.store.lanes) \cup DOMAIN snapshot.lane_counts
                     \cup DOMAIN snapshot.totals
        new(l) == lane_activity(svc, snapshot, l)
        Upd(old, field) == [l \in DOMAIN old \cup lanes |->
                               IF l \in lanes THEN new(l)[field] ELSE old[l]]
        rated_lanes == {l \in lanes : new(l).rated}
    IN  [sys EXCEPT
             !.svc.lane_totals = Upd(svc.lane_totals, "total"),
             !.svc.lane_last_activity = Upd(svc.lane_last_activity, "last_activity"),
             !.svc.lane_gaps = Upd(svc.lane_gaps, "gap"),
             !.svc.lane_arrival_rate =
                 [l \in DOMAIN svc.lane_arrival_rate \cup rated_lanes |->
                     IF l \in rated_lanes THEN new(l).rate
                     ELSE svc.lane_arrival_rate[l]],
             !.svc.lane_forecast = Upd(svc.lane_forecast, "forecast"),
             !.svc.lane_total_timestamp = Upd(svc.lane_total_timestamp, "total_timestamp")]

\* Variant of latest_snapshot that does not add the snapshot's lanes to the store.
latest_snapshot_without_ensure(sys, snapshots) ==
    IF Len(snapshots) = 0 THEN sys
    ELSE LET last == snapshots[Len(snapshots)]
         IN  update_lane_activity([sys EXCEPT !.svc.last_snapshot = Some(last)], last)

\* "if not snapshots: raise RuntimeError"
latest_snapshot_raises(snapshots) == Len(snapshots) = 0

latest_snapshot(sys, snapshots) ==
    IF latest_snapshot_raises(snapshots) THEN sys
    ELSE LET last == snapshots[Len(snapshots)]
         IN  update_lane_activity(
                 [sys EXCEPT !.svc.last_snapshot = Some(last),
                             !.store = ensure_lanes(sys.store, last.count_order)],
                 last)

resolve_mode(store) ==
    IF Len(store.lanes) <= 1 THEN "single_flow"
    ELSE IF Len(store.lanes) = 2 THEN "opposite_road"
    ELSE "crossroad"

\* Variant of snapshot_is_stale that also rejects an age equal to the threshold.
snapshot_is_stale_inclusive(svc, snapshot, now) ==
    /\ ~(svc.telemetry_stale_after <= 0)
    /\ now - snapshot.timestamp >= svc.telemetry_stale_after

\* _assert_snapshot_fresh: the condition under which it raises.
snapshot_is_stale(svc, snapshot, now) ==
    /\ ~(svc.telemetry_stale_after <= 0)
    /\ now - snapshot.timestamp > svc.telemetry_stale_after

\* snapshot(): the controller after the optional hydration.
snapshot_hydrated(sys, snapshots, hydrate) ==
    IF IsNone(sys.svc.last_snapshot) /\ hydrate
    THEN latest_snapshot(sys, snapshots)
    ELSE sys

\* Variant of status_of that reports effective_until - now without the floor at 0.
status_of_unclamped_remaining(sys, reference_time) ==
    LET svc == sys.svc
        active == ~IsNone(svc.active_decision)
    IN  [current_green |-> IF active THEN Some(Get(svc.active_decision).green_lane)
                           ELSE None,
         remaining_seconds |->
             IF active
             THEN RSub(Get(svc.active_decision).effective_until, FromInt(reference_time))
             ELSE FromInt(0),
         cycle_id |-> IF active THEN Some(Get(svc.active_decision).cycle_id) ELSE None,
         cycle_started_at |-> sys.store.current_green_started_at,
         lane_counts |-> IF IsNone(svc.last_snapshot) THEN EmptyDict
                         ELSE Get(svc.last_snapshot).lane_counts,
         lane_totals |-> svc.lane_totals,
         lane_wait_times |-> sys.store.waiting_times,
         lane_gaps |-> svc.lane_gaps,
         lane_forecasts |-> svc.lane_forecast,
         directions |-> sys.store.lanes,
         mode |-> resolve_mode(sys.store)]

\* snapshot(): the status mapping, read from the controller after hydration.
status_of(sys, reference_time) ==
    LET svc == sys.svc
        active == ~IsNone(svc.active_decision)
    IN  [current_green |-> IF active THEN Some(Get(svc.active_decision).green_lane)
                           ELSE None,
         remaining_seconds |->
             IF active
             THEN RMax(FromInt(0), RSub(Get(svc.active_decision).effective_until,
                                        FromInt(reference_time)))
             ELSE FromInt(0),
         cycle_id |-> IF active THEN Some(Get(svc.active_decision).cycle_id) ELSE None,
         cycle_started_at |-> sys.store.current_green_started_at,
         lane_counts |-> IF IsNone(svc.last_snapshot) THEN EmptyDict
                         ELSE Get(svc.last_snapshot).lane_counts,
         lane_totals |-> svc.lane_totals,
         lane_wait_times |-> sys.store.waiting_times,
         lane_gaps |-> svc.lane_gaps,
         lane_forecasts |-> svc.lane_forecast,
         directions |-> sys.store.lanes,
         mode |-> resolve_mode(sys.store)]

\* A call's result: the controller after it, how it ended, what it returned.
Result(sys, outcome, decision) ==
    [sys |-> sys, outcome |-> outcome, decision |-> decision]

\* Lines 135-138 of evaluate_cycle: record the decision, then persist it.
record_decision(sys, decision, breakdowns, now, io_append, io_save) ==
    LET s1 == [sys EXCEPT !.svc.active_decision = Some(decision),
                          !.svc.last_priorities = breakdowns,
                          !.svc.history = Append(sys.svc.history, decision)]
        s2 == [s1 EXCEPT !.pers = append_history(s1.pers, <<decision>>, io_append)]
        s3 == [s2 EXCEPT !.pers = save_state(s2.pers, status_of(s2, now), io_save)]
    IN  IF io_append # "ok" THEN Result(s2, "io_error", None)
        ELSE IF io_save # "ok" THEN Result(s3, "io_error", None)
        ELSE Result(s3, "decision", Some(decision))

\* Lines 121-138 of evaluate_cycle: score, schedule, mark green, record.
schedule_cycle(sys, snapshot, now, io_append, io_save) ==
    LET active_lanes == sys.store.lanes
        breakdowns == score_lanes(sys.engine, active_lanes, snapshot,
                                  sys.store.waiting_times, sys.store.cooldowns,
                                  sys.svc.lane_gaps, sys.svc.lane_forecast)
        decision == next_cycle_decision(sys.sched, breakdowns, now)
        s1 == [sys EXCEPT !.sched = next_cycle_scheduler(sys.sched, breakdowns, now)]
        s2 == [s1 EXCEPT !.store = mark_green(s1.store, decision.green_lane, now)]
    IN  IF next_cycle_raises(breakdowns) THEN Result(sys, "empty_priorities", None)
        ELSE IF mark_green_raises(s1.store, decision.green_lane)
             THEN Result(s1, "unknown_lane", None)
        ELSE record_decision(s2, decision, breakdowns, now, io_append, io_save)

\* Variant of evaluate_cycle that counts missing telemetry as a stale incident.
evaluate_cycle_counting_missing(sys, snapshots, now, with_tick, io_append, io_save) ==
    LET s1 == IF with_tick THEN apply_tick(sys, now) ELSE sys
        s2 == latest_snapshot(s1, snapshots)
        snapshot == Get(s2.svc.last_snapshot)
    IN  IF latest_snapshot_raises(snapshots)
        THEN Result([s1 EXCEPT !.svc.stale_incidents = @ + 1], "no_telemetry", None)
        ELSE IF snapshot_is_stale(s2.svc, snapshot, now)
             THEN Result([s2 EXCEPT !.svc.stale_incidents = @ + 1], "stale", None)
        ELSE schedule_cycle(s2, snapshot, now, io_append, io_save)

\* Variant of evaluate_cycle that drops the active decision when it fails.
evaluate_cycle_forgetting_expired(sys, snapshots, now, with_tick, io_append, io_save) ==
    LET s1 == IF with_tick THEN apply_tick(sys, now) ELSE sys
        s2 == latest_snapshot(s1, snapshots)
        snapshot == Get(s2.svc.last_snapshot)
    IN  IF latest_snapshot_raises(snapshots)
        THEN Result([s1 EXCEPT !.svc.active_decision = None], "no_telemetry", None)
        ELSE IF snapshot_is_stale(s2.svc, snapshot, now)
             THEN Result([s2 EXCEPT !.svc.stale_incidents = @ + 1,
                                    !.svc.active_decision = None], "stale", None)
        ELSE schedule_cycle(s2, snapshot, now, io_append, io_save)

evaluate_cycle(sys, snapshots, now, with_tick, io_append, io_save) ==
    LET s1 == IF with_tick THEN apply_tick(sys, now) ELSE sys
        s2 == latest_snapshot(s1, snapshots)
        snapshot == Get(s2.svc.last_snapshot)
    IN  IF latest_snapshot_raises(snapshots) THEN Result(s1, "no_telemetry", None)
        ELSE IF snapshot_is_stale(s2.svc, snapshot, now)
             THEN Result([s2 EXCEPT !.svc.stale_incidents = @ + 1], "stale", None)
        ELSE schedule_cycle(s2, snapshot, now, io_append, io_save)

\* Variant of decision_in_effect that compares now with effective_from.
decision_in_effect_from(svc, now) ==
    /\ ~IsNone(svc.active_decision)
    /\ now < Get(svc.active_decision).effective_from

\* "if self._active_decision and now < self._active_decision.effective_until"
decision_in_effect(svc, now) ==
    /\ ~IsNone(svc.active_decision)
    /\ RLt(FromInt(now), Get(svc.active_decision).effective_until)

step(sys, snapshots, now, io_append, io_save) ==
    LET s1 == apply_tick(sys, now)
        s2 == snapshot_hydrated(s1, snapshots, TRUE)
        s3 == [s2 EXCEPT !.pers = save_state(s2.pers, status_of(s2, now), io_save)]
    IN  IF decision_in_effect(s1.svc, now)
        THEN Result(s3, IF io_save = "ok" THEN "no_new_decision" ELSE "io_error", None)
        ELSE evaluate_cycle(s1, snapshots, now, FALSE, io_append, io_save)

\* SignalService.snapshot(now, hydrate) as called by the status endpoint.
snapshot(sys, snapshots, now, hydrate) ==
    Result(snapshot_hydrated(sys, snapshots, hydrate), "status", None)

\* Variant of predict_next that returns the top-ranked entry, green or not.
predict_next_top(svc) ==
    IF Len(svc.last_priorities) = 0 THEN None
    ELSE Some(SortedDesc(svc.last_priorities)[1])

\* predict_next(): the first entry of the re-sorted last priorities whose
\* lane is not the active decision's green lane, else the first entry.
predict_next(svc) ==
    IF Len(svc.last_priorities) = 0 THEN None
    ELSE LET ordered == SortedDesc(svc.last_priorities)
             current_lane == IF ~IsNone(svc.active_decision)
                             THEN Some(Get(svc.active_decision).green_lane)
                             ELSE None
             others == {i \in 1..Len(ordered) : Some(ordered[i].lane) # current_lane}
         IN  IF others = {} THEN Some(ordered[1])
             ELSE Some(ordered[CHOOSE i \in others : \A j \in others : i <= j])

\* items[-limit:] of a Python list: a start of -0 is the start of the list,
\* a negative start counts from the end, and both are clipped to the list.
slice_from(items, start) ==
    LET first == IF start < 0 THEN Max(Len(items) + start, 0)
                 ELSE IF start < Len(items) THEN start ELSE Len(items)
    IN  SubSeq(items, first + 1, Len(items))

\* history(limit), with limit an Optional[int].
history(svc, limit) ==
    IF IsNone(limit) THEN svc.history
    ELSE slice_from(svc.history, 0 - Get(limit))

\* sum of decision.green_duration over the history
RECURSIVE green_total(_)
green_total(decisions) ==
    IF Len(decisions) = 0 THEN FromInt(0)
    ELSE RAdd(Head(decisions).green_duration, green_total(Tail(decisions)))

\* wait_totals[lane] and wait_counts[lane] of metrics(), as <<total, count>>
RECURSIVE wait_tally(_, _)
wait_tally(decisions, lane) ==
    IF Len(decisions) = 0 THEN <<0, 0>>
    ELSE LET rest == wait_tally(Tail(decisions), lane)
             entries == Head(decisions).priorities
             hits == {k \in 1..Len(entries) : entries[k].lane = lane}
         IN  IF hits = {} THEN rest
             ELSE <<rest[1] + entries[CHOOSE k \in hits : TRUE].waiting_time,
                    rest[2] + Cardinality(hits)>>

\* metrics(); last_updated, the wall clock of the call, is left out.
metrics(sys) ==
    LET svc == sys.svc
        scored == UNION {{svc.history[i].priorities[k].lane :
                             k \in 1..Len(svc.history[i].priorities)} :
                         i \in 1..Len(svc.history)}
    IN  [cycles_executed |-> Len(svc.history),
         average_green_duration |->
             IF Len(svc.history) > 0
             THEN RDiv(green_total(svc.history), FromInt(Len(svc.history)))
             ELSE FromInt(0),
         average_wait_by_lane |->
             [l \in scored |-> Rat(wait_tally(svc.history, l)[1],
                                   wait_tally(svc.history, l)[2])],
         current_wait_by_lane |-> status_of(sys, 0).lane_wait_times,
         lane_forecasts |-> svc.lane_forecast,
         stale_incidents |-> svc.stale_incidents,
         forecast_horizon |-> svc.forecast_horizon,
         telemetry_stale_after |-> svc.telemetry_stale_after]

\* Variant of reset_memory that forgets to clear the quiet-gaps.
reset_memory_keeps_gaps(sys) ==
    [sys EXCEPT
         !.store = StateStore_reset(sys.store),
         !.svc.last_tick_at = None,
         !.svc.active_decision = None,
         !.svc.last_priorities = <<>>,
         !.svc.last_snapshot = None,
         !.svc.history = <<>>,
         !.svc.lane_totals = EmptyDict,
         !.svc.lane_last_activity = EmptyDict,
         !.svc.lane_total_timestamp = EmptyDict,
         !.svc.lane_arrival_rate = EmptyDict,
         !.svc.lane_forecast = EmptyDict,
         !.svc.stale_incidents = 0]

\* Variant of reset_memory that leaves the Timing Store as it is.
reset_memory_keeping_store(sys) ==
    [sys EXCEPT
         !.svc.last_tick_at = None,
         !.svc.active_decision = None,
         !.svc.last_priorities = <<>>,
         !.svc.last_snapshot = None,
         !.svc.history = <<>>,
         !.svc.lane_totals = EmptyDict,
         !.svc.lane_last_activity = EmptyDict,
         !.svc.lane_gaps = EmptyDict,
         !.svc.lane_total_timestamp = EmptyDict,
         !.svc.lane_arrival_rate = EmptyDict,
         !.svc.lane_forecast = EmptyDict,
         !.svc.stale_incidents = 0]

\* Lines 207-219 of reset: the in-memory part of the reset.
reset_memory(sys) ==
    [sys EXCEPT
         !.store = StateStore_reset(sys.store),
         !.svc.last_tick_at = None,
         !.svc.active_decision = None,
         !.svc.last_priorities = <<>>,
         !.svc.last_snapshot = None,
         !.svc.history = <<>>,
         !.svc.lane_totals = EmptyDict,
         !.svc.lane_last_activity = EmptyDict,
         !.svc.lane_gaps = EmptyDict,
         !.svc.lane_total_timestamp = EmptyDict,
         !.svc.lane_arrival_rate = EmptyDict,
         !.svc.lane_forecast = EmptyDict,
         !.svc.stale_incidents = 0]

\* reset(); wall_clock is the datetime.now() read by snapshot(hydrate=False).
reset(sys, wall_clock, io_clear, io_save) ==
    LET s1 == reset_memory(sys)
        s2 == [s1 EXCEPT !.pers = clear_history(s1.pers, io_clear)]
        s3 == [s2 EXCEPT !.pers = save_state(s2.pers, status_of(s2, wall_clock), io_save)]
    IN  IF io_clear # "ok" THEN Result(s2, "io_error", None)
        ELSE IF io_save # "ok" THEN Result(s3, "io_error", None)
        ELSE Result(s3, "reset", None)

\* ------------------------------------------------------------------------
\* Configurations and inputs the model runs over.
\* ------------------------------------------------------------------------
\* The weights app/settings.py gives the engine.
Engine == PriorityEngine_init(Rat(6, 10), Rat(4, 10), Rat(2, 10), Rat(3, 10), Rat(2, 10))

\* Lane sets a StateStore is constructed with (settings.lanes).
ConfiguredLanes == {<<>>, <<"north", "west">>}

CooldownDurations == {2}

\* Small green times, so that decisions expire within MaxNow seconds.
SchedulerConfigs == {SchedulerConfig(1, 1, 2, 1)}

StaleAfterValues == {0, 1}

ForecastHorizons == {2}

Smoothing == Rat(1, 2)

Snapshot(timestamp, count_order, lane_counts, totals) ==
    [timestamp |-> timestamp, count_order |-> count_order,
     lane_counts |-> lane_counts, totals |-> totals]

SnapA == Snapshot(0, <<"north", "west">>, [north |-> 5, west |-> 2], [north |-> 5, west |-> 2])

SnapB == Snapshot(0, <<"north", "west">>, [north |-> 6, west |-> 3], [north |-> 6, west |-> 3])

SnapC == Snapshot(1, <<"west", "east">>, [west |-> 0, east |-> 0], [west |-> 3, east |-> 1])

SnapD == Snapshot(2, <<>>, EmptyDict, [east |-> 2])

\* What ResultsFileIngestor.load_recent returns over time, each window listed
\* oldest to newest; an empty window is "no parseable record in the file".
Feed == << <<>>, <<SnapA, SnapB>>, <<SnapC>>, <<SnapD>>, <<>> >>

Times == 0..MaxNow

\* ------------------------------------------------------------------------
\* State.
\*   state_store, scheduler, service, persistence: the objects of one
\*       SignalService; feed_at: the position in Feed of what load_recent returns now;
\*   telemetry: Module 1's OutputManager and the results file it writes
\*       (specification SpecFlush);
\*   call: the last call made and how it ended;
\*   faults: the write failures injected so far (specification SpecIO);
\*   returned: the decisions next_cycle has returned (specification SpecSched);
\*   granted: the lane of the last successful mark_green since the last reset
\*       (specification SpecStore).
\* ------------------------------------------------------------------------
VARIABLES state_store, scheduler, service, persistence, feed_at, telemetry, call, faults, returned, granted

vars == <<state_store, scheduler, service, persistence, feed_at, telemetry, call, faults, returned, granted>>

\* ResultsFileIngestor.load_recent()
results == Feed[feed_at]

Sys == [store |-> state_store, sched |-> scheduler, svc |-> service, pers |-> persistence, engine |-> Engine]

\* The variables take the fields of a call's resulting controller.
Becomes(sys) ==
    /\ state_store' = sys.store
    /\ scheduler' = sys.sched
    /\ service' = sys.svc
    /\ persistence' = sys.pers

WithinBounds(sys) ==
    /\ sys.sched.cycle_counter <= MaxCycles
    /\ sys.svc.stale_incidents <= MaxStale
    /\ \A l \in DOMAIN sys.store.waiting_times : sys.store.waiting_times[l] <= MaxWait

Failed(io) == io # "ok"

Init ==
    /\ \E lanes \in ConfiguredLanes, cd \in CooldownDurations :
           state_store = StateStore_init(lanes, cd)
    /\ \E cfg \in SchedulerConfigs : scheduler = SignalScheduler_init(cfg)
    /\ \E stale \in StaleAfterValues, horizon \in ForecastHorizons :
           service = SignalService_init(stale, horizon, Smoothing)
    /\ persistence = [history_file |-> JsonFile(<<>>), state_file |-> AbsentFile]
    /\ feed_at = 1
    /\ telemetry = OutputManager_init(1)
    /\ call = [op |-> "init"]
    /\ faults = 0
    /\ returned = <<>>
    /\ granted = None

\* ------------------------------------------------------------------------
\* The controller's operations, with a disk that never fails
\* (specification Spec).
\* ------------------------------------------------------------------------
StepWith(now, io_append, io_save) ==
    \E r \in {step(Sys, results, now, io_append, io_save)} :
        /\ WithinBounds(r.sys)
        /\ Becomes(r.sys)
        /\ faults' = IF r.outcome = "io_error" THEN faults + 1 ELSE faults
        /\ call' = [op |-> "step", now |-> now, outcome |-> r.outcome, decision |-> r.decision]
        /\ UNCHANGED <<feed_at, telemetry, returned, granted>>

ResetWith(wall_clock, io_clear, io_save) ==
    \E r \in {reset(Sys, wall_clock, io_clear, io_save)} :
        /\ Becomes(r.sys)
        /\ faults' = IF r.outcome = "io_error" THEN faults + 1 ELSE faults
        /\ call' = [op |-> "reset", outcome |-> r.outcome]
        /\ UNCHANGED <<feed_at, telemetry, returned, granted>>

Step(now) == StepWith(now, "ok", "ok")

Reset(wall_clock) == ResetWith(wall_clock, "ok", "ok")

\* The status endpoint: SignalService.snapshot(now) with hydrate = True.
Status(now) ==
    \E r \in {snapshot(Sys, results, now, TRUE)} :
        /\ Becomes(r.sys)
        /\ call' = [op |-> "status", outcome |-> r.outcome]
        /\ UNCHANGED <<feed_at, telemetry, faults, returned, granted>>

\* The telemetry producer moves the window on, or the file becomes unreadable.
Produce(position) ==
    /\ position > feed_at
    /\ feed_at' = position
    /\ call' = [op |-> "produce"]
    /\ UNCHANGED <<state_store, scheduler, service, persistence, telemetry, faults, returned, granted>>

Next ==
    \/ \E now \in Times : Step(now)
    \/ \E now \in Times : Status(now)
    \/ \E wall_clock \in Times : Reset(wall_clock)
    \/ \E position \in 1..Len(Feed) : Produce(position)

Spec == Init /\ [][Next]_vars

\* ------------------------------------------------------------------------
\* The controller on a disk whose writes can fail (specification SpecIO):
\* at most MaxFaults write_text calls raise OSError.
\* ------------------------------------------------------------------------
FaultyStep(now, io_append, io_save) ==
    /\ faults < MaxFaults
    /\ Failed(io_append) \/ Failed(io_save)
    /\ StepWith(now, io_append, io_save)

FaultyReset(wall_clock, io_clear, io_save) ==
    /\ faults < MaxFaults
    /\ Failed(io_clear) \/ Failed(io_save)
    /\ ResetWith(wall_clock, io_clear, io_save)

NextIO ==
    \/ \E now \in Times : Step(now)
    \/ \E wall_clock \in Times : Reset(wall_clock)
    \/ \E position \in 1..Len(Feed) : Produce(position)
    \/ \E now \in Times, io_append \in IoOutcomes, io_save \in IoOutcomes :
           FaultyStep(now, io_append, io_save)
    \/ \E wall_clock \in Times, io_clear \in IoOutcomes, io_save \in IoOutcomes :
           FaultyReset(wall_clock, io_clear, io_save)

SpecIO == Init /\ [][NextIO]_vars

\* ------------------------------------------------------------------------
\* The Lane Timing Store on its own (specification SpecStore).
\* ------------------------------------------------------------------------
StoreLanes == {"north", "west", "east"}

StoreLaneLists == {<<"east">>, <<"west", "east">>, <<>>}

StoreCooldowns == {0 - 1, 0, 2}

Deltas == {0 - 1, 0, 1, 2}

InitStore ==
    /\ \E lanes \in ConfiguredLanes, cd \in StoreCooldowns :
           state_store = StateStore_init(lanes, cd)
    /\ scheduler = SignalScheduler_init(SchedulerConfig(1, 1, 2, 1))
    /\ service = SignalService_init(0, 0, Smoothing)
    /\ persistence = [history_file |-> JsonFile(<<>>), state_file |-> AbsentFile]
    /\ feed_at = 1
    /\ telemetry = OutputManager_init(1)
    /\ call = [op |-> "init"]
    /\ faults = 0
    /\ returned = <<>>
    /\ granted = None

StoreFrame == UNCHANGED <<scheduler, service, persistence, feed_at, telemetry, faults, returned>>

StoreEnsureLanes(lanes) ==
    /\ state_store' = ensure_lanes(state_store, lanes)
    /\ call' = [op |-> "ensure_lanes", lanes |-> lanes, raised |-> FALSE]
    /\ UNCHANGED granted
    /\ StoreFrame

StoreTick(delta_seconds) ==
    /\ state_store' = tick(state_store, delta_seconds)
    /\ \A l \in DOMAIN state_store'.waiting_times : state_store'.waiting_times[l] <= MaxWait
    /\ call' = [op |-> "tick", delta |-> delta_seconds, raised |-> FALSE]
    /\ UNCHANGED granted
    /\ StoreFrame

StoreMarkGreen(lane, timestamp) ==
    /\ state_store' = mark_green(state_store, lane, timestamp)
    /\ call' = [op |-> "mark_green", lane |-> lane, timestamp |-> timestamp,
                raised |-> mark_green_raises(state_store, lane)]
    /\ granted' = IF mark_green_raises(state_store, lane) THEN granted ELSE Some(lane)
    /\ StoreFrame

StoreReset ==
    /\ state_store' = StateStore_reset(state_store)
    /\ call' = [op |-> "reset", raised |-> FALSE]
    /\ granted' = None
    /\ StoreFrame

NextStore ==
    \/ \E lanes \in StoreLaneLists : StoreEnsureLanes(lanes)
    \/ \E delta_seconds \in Deltas : StoreTick(delta_seconds)
    \/ \E lane \in StoreLanes, timestamp \in {0, MaxNow} : StoreMarkGreen(lane, timestamp)
    \/ StoreReset

SpecStore == InitStore /\ [][NextStore]_vars

\* ------------------------------------------------------------------------
\* The Cycle Scheduler on its own (specification SpecSched).
\* ------------------------------------------------------------------------
Breakdown(lane, vehicle_count, waiting_time, score) ==
    [lane |-> lane, vehicle_count |-> vehicle_count, waiting_time |-> waiting_time,
     cooldown_penalty |-> 0, vehicle_gap |-> 0, forecast_count |-> FromInt(0),
     score |-> score]

\* priorities.values() of the dicts next_cycle is called with, keyed by lane.
PriorityInputs ==
    { <<>>,
      <<Breakdown("north", 4, 1, Rat(9, 1))>>,
      <<Breakdown("north", 4, 1, Rat(9, 1)), Breakdown("west", 1, 3, Rat(5, 1))>>,
      <<Breakdown("north", 0, 0, Rat(3, 10)), Breakdown("west", 0, 0, Rat(3, 10))>>,
      <<Breakdown("", 4, 1, Rat(9, 1)), Breakdown("west", 1, 3, Rat(5, 1))>>,
      <<Breakdown("north", 5, 12, Rat(9, 1)), Breakdown("west", 12, 4, Rat(19, 2)),
        Breakdown("east", 0, 20, Rat(5, 1))>> }

\* The last configuration has min_green > max_green.
SchedulerOnlyConfigs ==
    {SchedulerConfig(2, 1, 5, 2), SchedulerConfig(1, 2, 3, 3), SchedulerConfig(2, 3, 1, 2)}

InitSched ==
    /\ \E cfg \in SchedulerOnlyConfigs : scheduler = SignalScheduler_init(cfg)
    /\ state_store = StateStore_init(<<>>, 0)
    /\ service = SignalService_init(0, 0, Smoothing)
    /\ persistence = [history_file |-> JsonFile(<<>>), state_file |-> AbsentFile]
    /\ feed_at = 1
    /\ telemetry = OutputManager_init(1)
    /\ call = [op |-> "init"]
    /\ faults = 0
    /\ returned = <<>>
    /\ granted = None

NextCycle(priorities, decided_at) ==
    /\ Len(returned) < MaxCalls
    /\ scheduler' = next_cycle_scheduler(scheduler, priorities, decided_at)
    /\ returned' = IF next_cycle_raises(priorities) THEN returned
                   ELSE Append(returned, next_cycle_decision(scheduler, priorities, decided_at))
    /\ call' = [op |-> "next_cycle", priorities |-> priorities,
                raised |-> next_cycle_raises(priorities)]
    /\ UNCHANGED <<state_store, service, persistence, feed_at, telemetry, faults, granted>>

NextSched == \E priorities \in PriorityInputs, decided_at \in {0, MaxNow} : NextCycle(priorities, decided_at)

SpecSched == InitSched /\ [][NextSched]_vars

\* The scheduler called again and again with the priorities of its first call
\* (specification SpecRepeat): the same two or more named lanes on every call.
RepeatInputs == {p \in PriorityInputs : Len(p) >= 2 /\ \A i \in 1..Len(p) : p[i].lane # ""}

RepeatCycle(priorities, decided_at) ==
    /\ IF call.op = "init" THEN TRUE ELSE call.priorities = priorities
    /\ NextCycle(priorities, decided_at)

NextRepeat == \E priorities \in RepeatInputs, decided_at \in {0, MaxNow} : RepeatCycle(priorities, decided_at)

SpecRepeat == InitSched /\ [][NextRepeat]_vars

\* ------------------------------------------------------------------------
\* The persistence sink on its own (specification SpecPersist): the three
\* operations of JsonPersistence on a history file of any prior content, with
\* reads and writes that can raise OSError.
\* ------------------------------------------------------------------------
PersistedDecision(cycle_id) ==
    next_cycle_decision([SignalScheduler_init(SchedulerConfig(2, 1, 5, 2)) EXCEPT !.cycle_counter = cycle_id - 1],
                        <<Breakdown("north", 4, 1, Rat(9, 1))>>, 0)

PriorHistoryFiles ==
    {AbsentFile, CorruptFile, JsonFile(<<>>), JsonFile(<<PersistedDecision(1)>>)}

DecisionLists ==
    {<<>>, <<PersistedDecision(2)>>, <<PersistedDecision(2), PersistedDecision(3)>>}

StateDocuments == {<<>>, <<"maintaining">>}

InitPersist ==
    /\ \E history_file \in PriorHistoryFiles :
           persistence = [history_file |-> history_file, state_file |-> AbsentFile]
    /\ state_store = StateStore_init(<<>>, 0)
    /\ scheduler = SignalScheduler_init(SchedulerConfig(2, 1, 5, 2))
    /\ service = SignalService_init(0, 0, Smoothing)
    /\ feed_at = 1
    /\ telemetry = OutputManager_init(1)
    /\ call = [op |-> "init"]
    /\ faults = 0
    /\ returned = <<>>
    /\ granted = None

PersistFrame == UNCHANGED <<state_store, scheduler, service, feed_at, telemetry, returned, granted>>

AppendHistory(decisions, io_read, io) ==
    /\ Len(existing_history(persistence.history_file)) + Len(decisions) <= MaxCalls
    /\ faults + (IF Failed(io_read) \/ Failed(io) THEN 1 ELSE 0) <= MaxFaults
    /\ persistence' = append_history_read(persistence, decisions, io_read, io)
    /\ faults' = faults + (IF Failed(io_read) \/ Failed(io) THEN 1 ELSE 0)
    /\ call' = [op |-> "append_history", decisions |-> decisions, io_read |-> io_read,
                raised |-> (Len(decisions) > 0 /\ Failed(io))]
    /\ PersistFrame

SaveState(state, io) ==
    /\ faults + (IF Failed(io) THEN 1 ELSE 0) <= MaxFaults
    /\ persistence' = save_state(persistence, state, io)
    /\ faults' = faults + (IF Failed(io) THEN 1 ELSE 0)
    /\ call' = [op |-> "save_state", decisions |-> <<>>, io_read |-> "ok", raised |-> Failed(io)]
    /\ PersistFrame

ClearHistory(io) ==
    /\ faults + (IF Failed(io) THEN 1 ELSE 0) <= MaxFaults
    /\ persistence' = clear_history(persistence, io)
    /\ faults' = faults + (IF Failed(io) THEN 1 ELSE 0)
    /\ call' = [op |-> "clear_history", decisions |-> <<>>, io_read |-> "ok", raised |-> Failed(io)]
    /\ PersistFrame

NextPersist ==
    \/ \E decisions \in DecisionLists, io_read \in ReadOutcomes, io \in IoOutcomes :
           AppendHistory(decisions, io_read, io)
    \/ \E state \in StateDocuments, io \in IoOutcomes : SaveState(state, io)
    \/ \E io \in IoOutcomes : ClearHistory(io)

SpecPersist == InitPersist /\ [][NextPersist]_vars

\* ------------------------------------------------------------------------
\* Telemetry source (adapters/file_ingestor.py), specification SpecIngest.
\* A dict is [order, map]: its keys in insertion order and its values.
\* A raw value that may be missing or of the wrong type is an Optional.
\* signal_states, latency_ms and junction_type are carried through by the
\* code and read by no decision; they are left out of LaneSnapshot here.
\* ------------------------------------------------------------------------
EmptyOrdered == [order |-> <<>>, map |-> EmptyDict]

\* d[k] = v
dict_set(d, k, v) ==
    [order |-> IF k \in DOMAIN d.map THEN d.order ELSE Append(d.order, k),
     map |-> [x \in (DOMAIN d.map) \cup {k} |-> IF x = k THEN v ELSE d.map[x]]]

\* for k, v in items: d[k] = v, over pairs <<key, value>>
RECURSIVE dict_set_all(_, _)
dict_set_all(d, items) ==
    IF Len(items) = 0 THEN d
    ELSE dict_set_all(dict_set(d, items[1][1], items[1][2]), Tail(items))

dict_items(d) == [i \in 1..Len(d.order) |-> <<d.order[i], d.map[d.order[i]]>>]

ResultsFileIngestor_init(window_size) == Max(window_size, 1)

\* payload is None when it is not a dict, else the pairs <<key, value>> with
\* value None when int(value) raises.
coerce_int_map(payload) ==
    IF IsNone(payload) THEN EmptyOrdered
    ELSE dict_set_all(EmptyOrdered,
                      SelectSeq([i \in 1..Len(Get(payload)) |->
                                    <<Get(payload)[i][1],
                                      IF IsNone(Get(payload)[i][2]) THEN None
                                      ELSE Get(payload)[i][2]>>],
                                LAMBDA pair : ~IsNone(pair[2])))

coerced_values(d) == [order |-> d.order, map |-> [k \in DOMAIN d.map |-> Get(d.map[k])]]

\* strip() and lower() on the direction strings of the inputs.
normalize_direction(value) ==
    IF IsNone(value) THEN None
    ELSE CASE Get(value) = "North" -> Some("north")
           [] Get(value) = " west " -> Some("west")
           [] Get(value) = "  " -> None
           [] Get(value) = "" -> None
           [] OTHER -> value

\* datetime.fromisoformat on the timestamp strings of the inputs, as seconds.
parse_timestamp(value) ==
    IF IsNone(value) THEN None
    ELSE CASE Get(value) = "2025-11-04T00:00:00Z" -> Some(0)
           [] Get(value) = "2025-11-04T00:00:01+00:00" -> Some(1)
           [] Get(value) = "2025-11-04T00:00:02Z" -> Some(2)
           [] OTHER -> None

\* payload is [shape, records]: a dict with a "records" list, a bare list, or
\* anything else; an item that is not a dict is None.
extract(payload) ==
    IF payload.shape \in {"dict", "list"}
    THEN [i \in 1..Len(SelectSeq(payload.records, LAMBDA item : ~IsNone(item))) |->
             Get(SelectSeq(payload.records, LAMBDA item : ~IsNone(item))[i])]
    ELSE <<>>

\* Lines 45-55 for counts and 57-67 for totals: the value of the record's own
\* direction.
own_direction_value(current, direction, given, value) ==
    LET taken == IF Len(given.order) = 0 THEN current
                 ELSE IF direction \in DOMAIN given.map
                      THEN dict_set(current, direction, given.map[direction])
                 ELSE IF Len(given.order) = 1
                      THEN dict_set(current, direction, given.map[given.order[1]])
                 ELSE current
    IN  IF direction \notin DOMAIN taken.map /\ ~IsNone(value)
        THEN dict_set(taken, direction, Get(value))
        ELSE taken

LaneSnapshot(frame_id, timestamp, lane_counts, totals, direction) ==
    [frame_id |-> frame_id, timestamp |-> timestamp, count_order |-> lane_counts.order,
     lane_counts |-> lane_counts.map, totals |-> totals.map, direction |-> direction]

\* One turn of the loop of lines 36-94 on acc = [snapshots, current_counts,
\* current_totals].
ingest_record(acc, raw) ==
    LET timestamp == parse_timestamp(raw.timestamp)
        direction == normalize_direction(raw.direction)
        counts == coerced_values(coerce_int_map(raw.counts))
        totals == coerced_values(coerce_int_map(raw.totals))
        own_counts == IF Truthy(direction)
                      THEN own_direction_value(acc.current_counts, Get(direction), counts, raw.vehicle_count)
                      ELSE acc.current_counts
        own_totals == IF Truthy(direction)
                      THEN own_direction_value(acc.current_totals, Get(direction), totals, raw.total)
                      ELSE acc.current_totals
        current_counts == dict_set_all(own_counts, dict_items(counts))
        current_totals == dict_set_all(own_totals, dict_items(totals))
    IN  IF IsNone(timestamp) THEN acc
        ELSE [snapshots |-> Append(acc.snapshots,
                                   LaneSnapshot(raw.frame_id, Get(timestamp), current_counts,
                                                current_totals, direction)),
              current_counts |-> current_counts,
              current_totals |-> current_totals]

RECURSIVE ingest_records(_, _)
ingest_records(acc, records) ==
    IF Len(records) = 0 THEN acc
    ELSE ingest_records(ingest_record(acc, records[1]), Tail(records))

\* load_recent() of an ingestor whose self.window_size is window_size.
load_recent(source_file, window_size) ==
    IF source_file.kind # "json" THEN <<>>
    ELSE IF Len(extract(source_file.content)) = 0 THEN <<>>
    ELSE slice_from(ingest_records([snapshots |-> <<>>, current_counts |-> EmptyOrdered,
                                    current_totals |-> EmptyOrdered],
                                   extract(source_file.content)).snapshots,
                    0 - window_size)

RawRecord(frame_id, timestamp, direction, counts, totals, vehicle_count, total) ==
    [frame_id |-> frame_id, timestamp |-> timestamp, direction |-> direction,
     counts |-> counts, totals |-> totals, vehicle_count |-> vehicle_count, total |-> total]

\* The items a results file is made of: records of Module 1 in its own
\* spelling, one with no usable timestamp, and one item that is not a dict.
ResultItems ==
    { None,
      Some(RawRecord(Some(1), Some("2025-11-04T00:00:00Z"), None,
                     Some(<< <<"north", Some(1)>>, <<"west", Some(1)>> >>), None, None, None)),
      Some(RawRecord(Some(2), Some("2025-11-04T00:00:01+00:00"), Some("North"),
                     Some(<< <<"north", Some(5)>> >>), Some(<< <<"north", Some(5)>> >>), None, None)),
      Some(RawRecord(Some(3), Some("2025-11-04T00:00:02Z"), Some(" west "),
                     Some(<< <<"w", Some(3)>> >>), Some(<< <<"north", None>> >>), Some(7), Some(4))),
      Some(RawRecord(None, Some("yesterday"), Some("east"),
                     Some(<< <<"east", Some(9)>> >>), None, Some(9), None)) }

MaxRecords == 3

RECURSIVE ItemLists(_)
ItemLists(n) ==
    IF n = 0 THEN {<<>>}
    ELSE ItemLists(n - 1) \cup {Append(items, item) : items \in ItemLists(n - 1), item \in ResultItems}

SourceFiles ==
    {AbsentFile, CorruptFile, JsonFile([shape |-> "other", records |-> <<>>])}
        \cup {JsonFile([shape |-> shape, records |-> records]) :
                 shape \in {"dict", "list"}, records \in ItemLists(MaxRecords)}

WindowSizes == {0, 2}

InitIngest ==
    /\ scheduler = SignalScheduler_init(SchedulerConfig(1, 1, 2, 1))
    /\ state_store = StateStore_init(<<>>, 0)
    /\ service = SignalService_init(0, 0, Smoothing)
    /\ persistence = [history_file |-> JsonFile(<<>>), state_file |-> AbsentFile]
    /\ feed_at = 1
    /\ telemetry = OutputManager_init(1)
    /\ call = [op |-> "init"]
    /\ faults = 0
    /\ returned = <<>>
    /\ granted = None

LoadRecent(source_file, window_size) ==
    /\ call' = [op |-> "load_recent", source_file |-> source_file,
                window_size |-> ResultsFileIngestor_init(window_size),
                snapshots |-> load_recent(source_file, ResultsFileIngestor_init(window_size))]
    /\ UNCHANGED <<state_store, scheduler, service, persistence, feed_at, telemetry, faults, returned, granted>>

NextIngest == \E source_file \in SourceFiles, window_size \in WindowSizes : LoadRecent(source_file, window_size)

SpecIngest == InitIngest /\ [][NextIngest]_vars

\* ------------------------------------------------------------------------
\* The controller observing telemetry (specification SpecObserve):
\* _latest_snapshot() called on windows drawn from ObservedSnapshots, in any
\* order of timestamps; returned keeps the snapshots observed so far.
\* ------------------------------------------------------------------------
ObserveLanes == <<"north">>

SnapshotAt(timestamp) ==
    { Snapshot(timestamp, <<"north">>, [north |-> 1], [north |-> 1]),
      Snapshot(timestamp, <<"north", "west">>, [north |-> 2, west |-> 0], [north |-> 3, west |-> 1]),
      Snapshot(timestamp, <<"west">>, [west |-> 1], [east |-> timestamp - 1]) }

ObservedSnapshots == UNION {SnapshotAt(timestamp) : timestamp \in Times}

ObservedWindows == {<<>>} \cup {<<observed>> : observed \in ObservedSnapshots}

ObserveSmoothings == {Rat(1, 2), Rat(3, 2)}

ObserveHorizons == {0, 2}

InitObserve ==
    /\ state_store = StateStore_init(ObserveLanes, 0)
    /\ scheduler = SignalScheduler_init(SchedulerConfig(1, 1, 2, 1))
    /\ \E horizon \in ObserveHorizons, smoothing \in ObserveSmoothings :
           service = SignalService_init(0, horizon, smoothing)
    /\ persistence = [history_file |-> JsonFile(<<>>), state_file |-> AbsentFile]
    /\ feed_at = 1
    /\ telemetry = OutputManager_init(1)
    /\ call = [op |-> "init"]
    /\ faults = 0
    /\ returned = <<>>
    /\ granted = None

Observe(snapshots) ==
    /\ Len(returned) < MaxCalls
    /\ Becomes(latest_snapshot(Sys, snapshots))
    /\ returned' = IF latest_snapshot_raises(snapshots) THEN returned
                   ELSE Append(returned, snapshots[Len(snapshots)])
    /\ call' = [op |-> "latest_snapshot", snapshots |-> snapshots,
                raised |-> latest_snapshot_raises(snapshots)]
    /\ UNCHANGED <<feed_at, telemetry, faults, granted>>

NextObserve == \E snapshots \in ObservedWindows : Observe(snapshots)

SpecObserve == InitObserve /\ [][NextObserve]_vars

\* ------------------------------------------------------------------------
\* The controller driven through step and reset alone, with the clock values
\* of the calls in any order (specification SpecClock); returned keeps the
\* now of every step since construction or the last reset.
\* ------------------------------------------------------------------------
ClockStep(now) ==
    /\ Len(returned) < MaxCalls
    /\ \E r \in {step(Sys, results, now, "ok", "ok")} :
           /\ WithinBounds(r.sys)
           /\ Becomes(r.sys)
           /\ call' = [op |-> "step", now |-> now, outcome |-> r.outcome, decision |-> r.decision]
    /\ returned' = Append(returned, now)
    /\ UNCHANGED <<feed_at, telemetry, faults, granted>>

ClockReset(wall_clock) ==
    /\ \E r \in {reset(Sys, wall_clock, "ok", "ok")} :
           /\ Becomes(r.sys)
           /\ call' = [op |-> "reset", outcome |-> r.outcome]
    /\ returned' = <<>>
    /\ UNCHANGED <<feed_at, telemetry, faults, granted>>

NextClock ==
    \/ \E now \in Times : ClockStep(now)
    \/ \E wall_clock \in Times : ClockReset(wall_clock)
    \/ \E position \in 1..Len(Feed) : Produce(position)

SpecClock == Init /\ [][NextClock]_vars

\* ------------------------------------------------------------------------
\* Module 1 writing the results file while the controller reads it
\* (specification SpecFlush).  flush() opens the file for writing, which
\* truncates it, and then dumps every buffered record: a reader can run
\* between the two.
\* ------------------------------------------------------------------------
TrafficRecord(frame_id, timestamp, counts, totals, direction) ==
    [frame_id |-> frame_id, timestamp |-> timestamp, counts |-> counts, totals |-> totals,
     direction |-> direction]

\* TrafficRecord.to_dict() as the item json.loads gives the ingestor.
to_dict(record) ==
    Some(RawRecord(Some(record.frame_id), Some(record.timestamp), record.direction,
                   Some([i \in 1..Len(record.counts) |-> <<record.counts[i][1], Some(record.counts[i][2])>>]),
                   Some([i \in 1..Len(record.totals) |-> <<record.totals[i][1], Some(record.totals[i][2])>>]),
                   None, None))

\* The document flush() dumps for a buffer of records (no metadata: a list).
flush_payload(records) ==
    [shape |-> "list", records |-> [i \in 1..Len(records) |-> to_dict(records[i])]]

\* Line 136: open("w") has truncated the file; an empty file does not parse.
flush_open(om) ==
    IF Len(om.records) = 0 THEN om
    ELSE [om EXCEPT !.flushing = TRUE, !.results_file = CorruptFile]

\* Lines 137-139: the dump has been written and the file closed.
flush_write(om) ==
    [om EXCEPT !.flushing = FALSE,
               !.results_file = JsonFile(flush_payload(om.records)),
               !.flush_counter = 0]

\* append_record up to the point where its flush has opened the file.
append_record(om, record) ==
    LET buffered == [om EXCEPT !.records = Append(om.records, record),
                               !.flush_counter = om.flush_counter + 1]
    IN  IF buffered.flush_counter >= buffered.flush_every_n_frames
        THEN flush_open(buffered)
        ELSE buffered

ProducedRecords ==
    { TrafficRecord(1, "2025-11-04T00:00:00Z", << <<"north", 5>> >>, << <<"north", 5>> >>, Some("North")),
      TrafficRecord(2, "2025-11-04T00:00:01+00:00", << <<"west", 2>> >>, << <<"west", 2>> >>, Some(" west ")) }

FlushEvery == {1, 2}

FlushWindow == ResultsFileIngestor_init(2)

InitFlush ==
    /\ state_store = StateStore_init(<<"north", "west">>, 2)
    /\ scheduler = SignalScheduler_init(SchedulerConfig(1, 1, 2, 1))
    /\ service = SignalService_init(0, 2, Smoothing)
    /\ persistence = [history_file |-> JsonFile(<<>>), state_file |-> AbsentFile]
    /\ feed_at = 1
    /\ \E flush_every_n_frames \in FlushEvery : telemetry = OutputManager_init(flush_every_n_frames)
    /\ call = [op |-> "init"]
    /\ faults = 0
    /\ returned = <<>>
    /\ granted = None

AppendRecord(record) ==
    /\ ~telemetry.flushing
    /\ Len(telemetry.records) < MaxRecords
    /\ telemetry' = append_record(telemetry, record)
    /\ call' = [op |-> "append_record"]
    /\ UNCHANGED <<state_store, scheduler, service, persistence, feed_at, faults, returned, granted>>

FlushWrite ==
    /\ telemetry.flushing
    /\ telemetry' = flush_write(telemetry)
    /\ call' = [op |-> "flush"]
    /\ UNCHANGED <<state_store, scheduler, service, persistence, feed_at, faults, returned, granted>>

\* step(now) of a controller whose ingestor reads the results file.
FileStep(now) ==
    /\ \E r \in {step(Sys, load_recent(telemetry.results_file, FlushWindow), now, "ok", "ok")} :
           /\ WithinBounds(r.sys)
           /\ Becomes(r.sys)
           /\ call' = [op |-> "step", now |-> now, outcome |-> r.outcome, decision |-> r.decision]
    /\ UNCHANGED <<feed_at, telemetry, faults, returned, granted>>

NextFlush ==
    \/ \E record \in ProducedRecords : AppendRecord(record)
    \/ FlushWrite
    \/ \E now \in Times : FileStep(now)

SpecFlush == InitFlush /\ [][NextFlush]_vars

\* ------------------------------------------------------------------------
\* The Priority Engine on its own (specification SpecEngine): score_lanes
\* is a pure function, applied here to inputs drawn from small sets.  The
\* maps leave lanes out and hold negative values, which the engine clamps.
\* ------------------------------------------------------------------------
\* The weights of app/settings.py and those of tests/test_priority_engine.py.
EngineWeights ==
    {Engine, PriorityEngine_init(Rat(1, 1), Rat(3, 10), Rat(1, 2), Rat(3, 10), Rat(0, 1))}

EngineLaneLists ==
    {<<>>, <<"north">>, <<"north", "west">>, <<"west", "north">>, <<"north", "east", "west">>}

EngineCounts == {EmptyDict, [north |-> 2, west |-> 2], [north |-> 2, west |-> 0, east |-> 0 - 1]}

EngineWaits == {EmptyDict, [north |-> 1, west |-> 1], [north |-> 0, west |-> 3, east |-> 0 - 1]}

EngineCooldowns == {EmptyDict, [north |-> 2, west |-> 0 - 1]}

EngineGaps == {EmptyDict, [north |-> 1, west |-> 0 - 2]}

EngineForecasts == {EmptyDict, [north |-> Rat(1, 2), west |-> Rat(0 - 1, 2)]}

InitEngine ==
    /\ scheduler = SignalScheduler_init(SchedulerConfig(1, 1, 2, 1))
    /\ state_store = StateStore_init(<<>>, 0)
    /\ service = SignalService_init(0, 0, Smoothing)
    /\ persistence = [history_file |-> JsonFile(<<>>), state_file |-> AbsentFile]
    /\ feed_at = 1
    /\ telemetry = OutputManager_init(1)
    /\ call = [op |-> "init"]
    /\ faults = 0
    /\ returned = <<>>
    /\ granted = None

ScoreLanes(engine, lanes, lane_counts, waiting_times, recent_cooldowns, vehicle_gaps, forecasts) ==
    /\ call' = [op |-> "score_lanes", engine |-> engine, lanes |-> lanes,
                lane_counts |-> lane_counts, waiting_times |-> waiting_times,
                recent_cooldowns |-> recent_cooldowns, vehicle_gaps |-> vehicle_gaps,
                forecasts |-> forecasts,
                breakdowns |-> score_lanes(engine, lanes,
                                           Snapshot(0, lanes, lane_counts, EmptyDict),
                                           waiting_times, recent_cooldowns,
                                           vehicle_gaps, forecasts)]
    /\ UNCHANGED <<state_store, scheduler, service, persistence, feed_at, telemetry, faults, returned, granted>>

NextEngine ==
    \E engine \in EngineWeights, lanes \in EngineLaneLists, lane_counts \in EngineCounts,
       waiting_times \in EngineWaits, recent_cooldowns \in EngineCooldowns,
       vehicle_gaps \in EngineGaps, forecasts \in EngineForecasts :
        ScoreLanes(engine, lanes, lane_counts, waiting_times, recent_cooldowns, vehicle_gaps, forecasts)

SpecEngine == InitEngine /\ [][NextEngine]_vars

\* ------------------------------------------------------------------------
\* The controller with its read operations (specification SpecReads): the
\* calls of Spec plus predict_next, history and metrics, on a controller
\* configured with one lane or with two.
\* ------------------------------------------------------------------------
ReadLanes == {<<"north">>, <<"north", "west">>}

\* limit of GET /signal/history: absent, or an integer.
HistoryLimits == {None, Some(0), Some(1)}

ReadStaleAfter == {1}

InitReads ==
    /\ \E lanes \in ReadLanes, cd \in CooldownDurations :
           state_store = StateStore_init(lanes, cd)
    /\ \E cfg \in SchedulerConfigs : scheduler = SignalScheduler_init(cfg)
    /\ \E stale \in ReadStaleAfter, horizon \in ForecastHorizons :
           service = SignalService_init(stale, horizon, Smoothing)
    /\ persistence = [history_file |-> JsonFile(<<>>), state_file |-> AbsentFile]
    /\ feed_at = 1
    /\ telemetry = OutputManager_init(1)
    /\ call = [op |-> "init"]
    /\ faults = 0
    /\ returned = <<>>
    /\ granted = None

PredictNext ==
    /\ Becomes(Sys)
    /\ call' = [op |-> "predict_next", result |-> predict_next(service)]
    /\ UNCHANGED <<feed_at, telemetry, faults, returned, granted>>

History(limit) ==
    /\ Becomes(Sys)
    /\ call' = [op |-> "history", limit |-> limit, result |-> history(service, limit)]
    /\ UNCHANGED <<feed_at, telemetry, faults, returned, granted>>

Metrics ==
    /\ Becomes(snapshot(Sys, results, 0, FALSE).sys)
    /\ call' = [op |-> "metrics", result |-> metrics(Sys)]
    /\ UNCHANGED <<feed_at, telemetry, faults, returned, granted>>

NextReads ==
    \/ \E now \in Times : Step(now)
    \/ \E now \in Times : Status(now)
    \/ \E wall_clock \in Times : Reset(wall_clock)
    \/ \E position \in 1..Len(Feed) : Produce(position)
    \/ PredictNext
    \/ \E limit \in HistoryLimits : History(limit)
    \/ Metrics

SpecReads == InitReads /\ [][NextReads]_vars

\* ------------------------------------------------------------------------
\* Properties.
\* ------------------------------------------------------------------------
\* A decision is active and now is before its effective_until.
InEffect(now) ==
    /\ ~IsNone(service.active_decision)
    /\ RLt(FromInt(now), Get(service.active_decision).effective_until)

SuccessfulStep == call.op = "step" /\ call.outcome \in {"decision", "no_new_decision"}

\* C1 (SpecSched): whenever next_cycle receives at least two lanes, the
\* green_lane it returns differs from the green_lane returned by the
\* immediately preceding successful call.
C1_StrictAlternation ==
    \A i \in 2..Len(returned) :
        Len(returned[i].priorities) >= 2 =>
            returned[i].green_lane # returned[i - 1].green_lane

\* C2 (SpecSched): with min_green <= max_green, every decision next_cycle
\* returns has min_green <= green_duration <= max_green.
C2_DurationWithinBounds ==
    scheduler.config.min_green <= scheduler.config.max_green =>
        \A i \in 1..Len(returned) :
            /\ RLe(FromInt(scheduler.config.min_green), returned[i].green_duration)
            /\ RLe(returned[i].green_duration, FromInt(scheduler.config.max_green))

\* C2 witness: one scheduler has returned a decision cut down to max_green
\* and one raised to min_green (all counts zero).
C2_BothClampsHit ==
    /\ scheduler.config.min_green < scheduler.config.max_green
    /\ \E i \in 1..Len(returned) :
           /\ returned[i].green_duration = FromInt(scheduler.config.max_green)
           /\ SumCounts(returned[i].priorities) > 0
    /\ \E i \in 1..Len(returned) :
           /\ returned[i].green_duration = FromInt(scheduler.config.min_green)
           /\ SumCounts(returned[i].priorities) = 0

\* C3 (Spec): step creates a decision only when no decision is in effect; a
\* step made while a decision is in effect returns no new decision, rewrites
\* the persisted status and nothing else on disk, and changes nothing in the
\* controller but the time tick.
C3_NoNewDecisionWhileInEffect ==
    [][call'.op = "step" =>
          /\ (call'.outcome = "decision" => ~InEffect(call'.now))
          /\ (InEffect(call'.now) =>
                 /\ call'.outcome = "no_new_decision"
                 /\ call'.decision = None
                 /\ service' = [service EXCEPT !.last_tick_at = Some(call'.now)]
                 /\ scheduler' = scheduler
                 /\ state_store'.lanes = state_store.lanes
                 /\ state_store'.current_green = state_store.current_green
                 /\ state_store'.current_green_started_at =
                        state_store.current_green_started_at
                 /\ persistence'.history_file = persistence.history_file
                 /\ persistence'.state_file.kind = "json"
                 /\ persistence'.state_file.content.cycle_id =
                        Some(Get(service.active_decision).cycle_id))]_vars

\* C3 witness: a step returned no new decision and its tick moved a waiting time.
C3_SteppedWhileInEffect ==
    /\ call.op = "step"
    /\ call.outcome = "no_new_decision"
    /\ \E l \in DOMAIN state_store.waiting_times : state_store.waiting_times[l] > 0

\* C4 (Spec): an evaluating step whose latest snapshot is older than a
\* positive threshold T ends stale, adds exactly 1 to the stale-incident
\* counter and creates no decision; with T = 0 or age <= T the step does not
\* end stale and the counter keeps its value.
C4_StaleTelemetry ==
    [][(call'.op = "step" /\ ~InEffect(call'.now) /\ Len(results) > 0) =>
          LET age == call'.now - results[Len(results)].timestamp
              T == service.telemetry_stale_after
          IN  IF T > 0 /\ age > T
              THEN /\ call'.outcome = "stale"
                   /\ call'.decision = None
                   /\ service'.stale_incidents = service.stale_incidents + 1
                   /\ service'.history = service.history
                   /\ service'.active_decision = service.active_decision
                   /\ scheduler'.cycle_counter = scheduler.cycle_counter
              ELSE /\ call'.outcome # "stale"
                   /\ service'.stale_incidents = service.stale_incidents]_vars

\* C4 witness: a step ended stale after an earlier decision had been recorded.
C4_StaleAfterDecision ==
    /\ call.op = "step"
    /\ call.outcome = "stale"
    /\ service.stale_incidents = 1
    /\ Len(service.history) > 0

\* C5 (Spec): an evaluating step that finds no snapshot ends with the
\* no-telemetry failure and returns no decision; the history, the active
\* decision, the cycle counter and the stale-incident counter keep their values.
C5_NoTelemetry ==
    [][(call'.op = "step" /\ ~InEffect(call'.now) /\ Len(results) = 0) =>
          /\ call'.outcome = "no_telemetry"
          /\ call'.decision = None
          /\ service'.history = service.history
          /\ service'.active_decision = service.active_decision
          /\ scheduler'.cycle_counter = scheduler.cycle_counter
          /\ service'.stale_incidents = service.stale_incidents]_vars

\* C5 witness: a step found no telemetry after a decision had expired.
C5_NoTelemetryAfterDecision ==
    /\ call.op = "step"
    /\ call.outcome = "no_telemetry"
    /\ Len(service.history) > 0
    /\ ~IsNone(service.active_decision)

\* C6 (SpecStore): from a successful mark_green(l, t) until the next
\* mark_green of another lane or reset, waiting_time(l) is 0 after every
\* operation.
C6_GreenLaneWaitsZero ==
    ~IsNone(granted) => state_store.waiting_times[Get(granted)] = 0

\* C6 witness: a positive tick ran while a lane was green and moved another lane.
C6_TickedWhileGreen ==
    /\ ~IsNone(granted)
    /\ call.op = "tick"
    /\ call.delta > 0
    /\ \E l \in DOMAIN state_store.waiting_times : state_store.waiting_times[l] > 0

\* C7 (SpecStore): every cooldown is >= 0 in every state, and a lane's
\* cooldown rises only in a mark_green of that lane.
C7_CooldownOnlyDecays ==
    /\ \A l \in DOMAIN state_store.cooldowns : state_store.cooldowns[l] >= 0
    /\ [][/\ \A l \in DOMAIN state_store'.cooldowns : state_store'.cooldowns[l] >= 0
          /\ \A l \in DOMAIN state_store.cooldowns :
                 state_store'.cooldowns[l] > state_store.cooldowns[l] =>
                     /\ call'.op = "mark_green"
                     /\ call'.lane = l]_vars

\* C7 witness: a tick has taken a cooldown part of the way down.
C7_CooldownDecaying ==
    /\ call.op = "tick"
    /\ \E l \in DOMAIN state_store.cooldowns :
           /\ state_store.cooldowns[l] > 0
           /\ state_store.cooldowns[l] < state_store.cooldown_duration

\* C8 (SpecStore): tick(delta) with delta <= 0 leaves the whole store unchanged.
C8_NonPositiveTickIsNoOp ==
    [][(call'.op = "tick" /\ call'.delta <= 0) => state_store' = state_store]_vars

\* C8 witness: a negative tick ran on a store with a green lane, a waiting
\* lane and a running cooldown.
C8_NegativeTickRan ==
    /\ call.op = "tick"
    /\ call.delta < 0
    /\ ~IsNone(state_store.current_green)
    /\ \E l \in DOMAIN state_store.waiting_times : state_store.waiting_times[l] > 0
    /\ \E l \in DOMAIN state_store.cooldowns : state_store.cooldowns[l] > 0

\* C9 (SpecIO): after every step that returns successfully, the persisted
\* history log holds exactly the decisions of the in-memory history, in order.
C9_PersistedHistoryMatches ==
    SuccessfulStep =>
        /\ persistence.history_file.kind = "json"
        /\ persistence.history_file.content = service.history

\* C10 (Spec): after reset there is no active decision, both histories are
\* empty, all timing values are 0, no lane is green, the stale counter is 0,
\* the per-lane maps are empty, and the persisted status shows no green lane
\* and empty lane_counts, lane_totals and lane_gaps; the tracked lanes are kept.
C10_ResetClears ==
    [][(call'.op = "reset" /\ call'.outcome = "reset") =>
          /\ IsNone(service'.active_decision)
          /\ service'.history = <<>>
          /\ persistence'.history_file = JsonFile(<<>>)
          /\ \A l \in Range(state_store'.lanes) :
                 /\ state_store'.waiting_times[l] = 0
                 /\ state_store'.cooldowns[l] = 0
          /\ IsNone(state_store'.current_green)
          /\ service'.stale_incidents = 0
          /\ DOMAIN service'.lane_totals = {}
          /\ DOMAIN service'.lane_gaps = {}
          /\ DOMAIN service'.lane_forecast = {}
          /\ persistence'.state_file.kind = "json"
          /\ IsNone(persistence'.state_file.content.current_green)
          /\ DOMAIN persistence'.state_file.content.lane_counts = {}
          /\ DOMAIN persistence'.state_file.content.lane_totals = {}
          /\ DOMAIN persistence'.state_file.content.lane_gaps = {}
          /\ state_store'.lanes = state_store.lanes]_vars

\* C10 witness: reset ran on a controller that had decided, while telemetry
\* was available and the lane set had grown to three lanes.
C10_ResetAfterDecisions ==
    /\ call.op = "reset"
    /\ call.outcome = "reset"
    /\ scheduler.cycle_counter > 0
    /\ Len(results) > 0
    /\ Len(state_store.lanes) = 3

\* The controller main.py would construct with the same tracked lanes and
\* the same configuration: new StateStore, SignalScheduler and SignalService.
FreshController(sys) ==
    [sys EXCEPT
         !.store = StateStore_init(sys.store.lanes, sys.store.cooldown_duration),
         !.sched = SignalScheduler_init(sys.sched.config),
         !.svc = SignalService_init(sys.svc.telemetry_stale_after,
                                    sys.svc.forecast_horizon,
                                    sys.svc.forecast_smoothing)]

\* C11 (Spec): the first step after reset() that produces a decision selects
\* the green lane and the green duration that a freshly constructed
\* controller with the same tracked lanes selects for the same telemetry
\* and the same now.
C11_ResetBehavesLikeFresh ==
    [][(call.op = "reset" /\ call.outcome = "reset"
            /\ call'.op = "step" /\ call'.outcome = "decision") =>
          LET fresh == step(FreshController(Sys), results, call'.now, "ok", "ok")
          IN  /\ fresh.outcome = "decision"
              /\ Get(fresh.decision).green_lane = Get(call'.decision).green_lane
              /\ Get(fresh.decision).green_duration =
                     Get(call'.decision).green_duration]_vars

C13_LanesNeverLost ==
    [][/\ Range(state_store.lanes) \subseteq Range(state_store'.lanes)
       /\ call'.op = "reset" =>
              /\ state_store'.lanes = state_store.lanes
              /\ DOMAIN state_store'.waiting_times = Range(state_store.lanes)
              /\ DOMAIN state_store'.cooldowns = Range(state_store.lanes)
              /\ \A l \in Range(state_store.lanes) :
                     /\ state_store'.waiting_times[l] = 0
                     /\ state_store'.cooldowns[l] = 0
              /\ IsNone(state_store'.current_green)
              /\ IsNone(state_store'.current_green_started_at)]_vars

\* C13 witness: a reset ran after the lane list had grown by a lane seen in
\* telemetry and a lane had been green.
C13_ResetKeptGrownLanes ==
    /\ call.op = "reset"
    /\ state_store.lanes = <<"north", "west", "east">>
    /\ ~IsNone(scheduler.last_green_lane)
    /\ IsNone(state_store.current_green)

\* C14 (Spec): after a step that produces a decision, every lane that is a
\* key of the latest snapshot's lane_counts or of its totals is tracked and
\* has an entry in the decision's priorities.
C14_SnapshotLanesTracked ==
    (call.op = "step" /\ call.outcome = "decision") =>
        LET latest == Get(service.last_snapshot)
            priorities == Get(call.decision).priorities
        IN  \A l \in DOMAIN latest.lane_counts \cup DOMAIN latest.totals :
                /\ Contains(state_store.lanes, l)
                /\ \E i \in 1..Len(priorities) : priorities[i].lane = l

\* (score, waiting_time, vehicle_count) of a is lexicographically >= that of b.
LexGe(a, b) ==
    \/ RLt(b.score, a.score)
    \/ /\ ~RLt(a.score, b.score)
       /\ \/ b.waiting_time < a.waiting_time
          \/ /\ b.waiting_time = a.waiting_time
             /\ b.vehicle_count <= a.vehicle_count

SameKeys(a, b) == LexGe(a, b) /\ LexGe(b, a)

\* The position of a lane in a list of distinct lanes.
PositionOf(lanes, lane) == CHOOSE i \in 1..Len(lanes) : lanes[i] = lane

\* C15 (SpecEngine): score_lanes returns one breakdown per input lane, in
\* descending lexicographic order of (score, waiting_time, vehicle_count);
\* breakdowns equal on all three keys keep the order of the input lanes, so
\* the returned order is a function of the inputs.
C15_RankedAndStable ==
    call.op = "score_lanes" =>
        LET out == call.breakdowns
        IN  /\ Len(out) = Len(call.lanes)
            /\ \A i \in 1..Len(call.lanes) :
                   Cardinality({j \in 1..Len(out) : out[j].lane = call.lanes[i]}) = 1
            /\ \A i, j \in 1..Len(out) :
                   i < j =>
                       /\ LexGe(out[i], out[j])
                       /\ SameKeys(out[i], out[j]) =>
                              PositionOf(call.lanes, out[i].lane) <
                                  PositionOf(call.lanes, out[j].lane)

\* C15 witness: west was passed before north, the two tie on all three keys,
\* and a third lane ranks below them.
C15_TieKeptInputOrder ==
    /\ call.op = "score_lanes"
    /\ call.lanes = <<"west", "north">>
    /\ Len(call.breakdowns) = 2
    /\ SameKeys(call.breakdowns[1], call.breakdowns[2])
    /\ call.breakdowns[1].lane = "west"
    /\ call.breakdowns[1].vehicle_count > 0

\* C16 (SpecEngine): each breakdown reports the lane's count, waiting time,
\* cooldown, quiet-gap and forecast clamped to >= 0 (0 for a lane missing
\* from a map), and its score is density_weight*c + wait_weight*w +
\* gap_weight/(1+g) + forecast_weight*f - cooldown_penalty_weight*p.
C16_ScoreFormula ==
    call.op = "score_lanes" =>
        \A i \in 1..Len(call.breakdowns) :
            LET b == call.breakdowns[i]
                e == call.engine
                c == Max(DictGet(call.lane_counts, b.lane, 0), 0)
                w == Max(DictGet(call.waiting_times, b.lane, 0), 0)
                p == Max(DictGet(call.recent_cooldowns, b.lane, 0), 0)
                g == Max(DictGet(call.vehicle_gaps, b.lane, 0), 0)
                f == RMax(DictGet(call.forecasts, b.lane, FromInt(0)), FromInt(0))
                gains == RAdd(RAdd(RMul(e.density_weight, FromInt(c)),
                                   RMul(e.wait_weight, FromInt(w))),
                              RAdd(RDiv(e.gap_weight, FromInt(1 + g)),
                                   RMul(e.forecast_weight, f)))
            IN  /\ b.vehicle_count = c
                /\ b.waiting_time = w
                /\ b.cooldown_penalty = p
                /\ b.vehicle_gap = g
                /\ b.forecast_count = f
                /\ b.score = RSub(gains, RMul(e.cooldown_penalty, FromInt(p)))

\* C16 witness: a lane with a negative count and a negative waiting time,
\* missing from the cooldown map, was scored next to a lane with a cooldown,
\* a quiet-gap and a forecast.
C16_ClampedAndMissing ==
    /\ call.op = "score_lanes"
    /\ "east" \in Range(call.lanes)
    /\ "east" \in DOMAIN call.lane_counts /\ call.lane_counts["east"] < 0
    /\ "east" \in DOMAIN call.waiting_times /\ call.waiting_times["east"] < 0
    /\ "east" \notin DOMAIN call.recent_cooldowns
    /\ \E i \in 1..Len(call.breakdowns) :
           /\ call.breakdowns[i].cooldown_penalty > 0
           /\ call.breakdowns[i].vehicle_gap > 0
           /\ RLt(FromInt(0), call.breakdowns[i].forecast_count)

\* The sum of the vehicle counts of a list of breakdowns.
RECURSIVE TotalCount(_)
TotalCount(priorities) ==
    IF Len(priorities) = 0 THEN 0
    ELSE Head(priorities).vehicle_count + TotalCount(Tail(priorities))

\* clamp(x, lo, hi), the lower bound winning when lo > hi.
Clamp(x, lo, hi) ==
    LET capped == IF RLt(hi, x) THEN hi ELSE x
    IN  IF RLt(capped, lo) THEN lo ELSE capped

\* C17 (SpecSched): every decision's green_duration is
\* clamp(base_green + (c_w / S) * scaling_factor, min_green, max_green) with
\* c_w the vehicle count of the lane chosen and S the sum of all lanes'
\* vehicle counts, the ratio being 0 when S = 0.
C17_DurationFormula ==
    \A i \in 1..Len(returned) :
        LET d == returned[i]
            cfg == scheduler.config
            chosen == CHOOSE k \in 1..Len(d.priorities) :
                          d.priorities[k].lane = d.green_lane
            c_w == d.priorities[chosen].vehicle_count
            S == TotalCount(d.priorities)
            proposed == IF S = 0 THEN FromInt(cfg.base_green)
                        ELSE Rat(cfg.base_green * S + c_w * cfg.scaling_factor, S)
        IN  d.green_duration =
                Clamp(proposed, FromInt(cfg.min_green), FromInt(cfg.max_green))

\* C17 witness: anti-starvation chose the second-ranked lane and its green
\* time lies strictly between min_green and max_green.
C17_DemotedLaneSizedGreen ==
    \E i \in 1..Len(returned) :
        /\ returned[i].green_lane # returned[i].priorities[1].lane
        /\ returned[i].priorities[1].vehicle_count
               # returned[i].priorities[2].vehicle_count
        /\ RLt(FromInt(scheduler.config.min_green), returned[i].green_duration)
        /\ RLt(returned[i].green_duration, FromInt(scheduler.config.max_green))

\* C18 (SpecSched): a decision's priorities list holds every input lane
\* once, in descending (score, waiting_time, vehicle_count) order; its
\* green_lane is priorities[0], or priorities[1] when priorities[0] is the
\* lane the previous call chose and there are at least two lanes.
C18_GreenLaneRule ==
    /\ \A i \in 1..Len(returned) :
           LET p == returned[i].priorities
               demoted == /\ i > 1
                          /\ p[1].lane = returned[i - 1].green_lane
                          /\ Len(p) >= 2
           IN  /\ \A j, k \in 1..Len(p) : j < k => LexGe(p[j], p[k])
               /\ returned[i].green_lane = IF demoted THEN p[2].lane ELSE p[1].lane
    /\ (call.op = "next_cycle" /\ ~call.raised) =>
           LET p == returned[Len(returned)].priorities
           IN  /\ Len(p) = Len(call.priorities)
               /\ \A j \in 1..Len(call.priorities) :
                      Cardinality({k \in 1..Len(p) :
                                      p[k].lane = call.priorities[j].lane}) = 1

\* C19 (Spec): a decision's cycle_id is the scheduler's counter plus one and
\* the counter then holds it, so the first decision has cycle_id 1; a step
\* that ends without a decision (no new decision, stale, no telemetry, empty
\* priorities) leaves the scheduler untouched; the cycle_ids of the
\* controller's history rise by exactly 1 from entry to entry.
C19_CycleIdsGapFree ==
    [][call'.op = "step" =>
          /\ IF call'.outcome = "decision"
             THEN /\ Get(call'.decision).cycle_id = scheduler.cycle_counter + 1
                  /\ scheduler'.cycle_counter = scheduler.cycle_counter + 1
                  /\ service'.history = Append(service.history, Get(call'.decision))
             ELSE /\ scheduler' = scheduler
                  /\ service'.history = service.history
          /\ \A i \in 1..(Len(service'.history) - 1) :
                 service'.history[i + 1].cycle_id = service'.history[i].cycle_id + 1]_vars

\* C19 witness: the second decision of a history was made after a step had
\* ended stale.
C19_SecondDecisionAfterStale ==
    /\ call.op = "step"
    /\ call.outcome = "decision"
    /\ Len(service.history) = 2
    /\ service.stale_incidents = 1

\* C20 (SpecStore): mark_green of a lane that is not tracked raises and
\* leaves current_green, its start time and every waiting time and cooldown
\* as they were.
C20_UnknownLaneRejected ==
    [][(call'.op = "mark_green" /\ call'.lane \notin Range(state_store.lanes)) =>
          /\ call'.raised
          /\ state_store' = state_store]_vars

\* C20 witness: mark_green of an untracked lane was rejected while another
\* lane was green, a lane was waiting and a cooldown was running.
C20_RejectedWhileGreen ==
    /\ call.op = "mark_green"
    /\ call.raised
    /\ ~IsNone(state_store.current_green)
    /\ \E l \in DOMAIN state_store.waiting_times : state_store.waiting_times[l] > 0
    /\ \E l \in DOMAIN state_store.cooldowns : state_store.cooldowns[l] > 0

\* C21 (SpecStore): mark_green(lane, t) of a tracked lane sets current_green
\* to the lane and the start time to t, that lane's waiting time to 0 and its
\* cooldown to cooldown_duration, and leaves the waiting time and cooldown of
\* every other lane, the previously green one included, as they were.
C21_MarkGreenEffect ==
    [][(call'.op = "mark_green" /\ call'.lane \in Range(state_store.lanes)) =>
          /\ ~call'.raised
          /\ state_store'.current_green = Some(call'.lane)
          /\ state_store'.current_green_started_at = Some(call'.timestamp)
          /\ state_store'.lanes = state_store.lanes
          /\ state_store'.waiting_times[call'.lane] = 0
          /\ state_store'.cooldowns[call'.lane] = state_store.cooldown_duration
          /\ \A l \in Range(state_store.lanes) \ {call'.lane} :
                 /\ state_store'.waiting_times[l] = state_store.waiting_times[l]
                 /\ state_store'.cooldowns[l] = state_store.cooldowns[l]]_vars

\* C21 witness: a lane was marked green while another lane had waited and
\* was still cooling down.
C21_MarkedGreenBesideWaitingLane ==
    /\ call.op = "mark_green"
    /\ ~call.raised
    /\ state_store.cooldowns[call.lane] > 0
    /\ \E l \in Range(state_store.lanes) \ {call.lane} :
           /\ state_store.waiting_times[l] > 0
           /\ state_store.cooldowns[l] > 0

\* C22 (SpecStore): tick(d) with d > 0 adds exactly d to the waiting time of
\* every tracked lane but the green one, sets the green lane's waiting time
\* to 0 and makes every cooldown max(0, cooldown - d).
C22_TickEffect ==
    [][(call'.op = "tick" /\ call'.delta > 0) =>
          /\ state_store'.lanes = state_store.lanes
          /\ state_store'.current_green = state_store.current_green
          /\ \A l \in Range(state_store.lanes) :
                 /\ state_store'.waiting_times[l] =
                        IF state_store.current_green = Some(l) THEN 0
                        ELSE state_store.waiting_times[l] + call'.delta
                 /\ state_store'.cooldowns[l] =
                        IF state_store.cooldowns[l] - call'.delta > 0
                        THEN state_store.cooldowns[l] - call'.delta
                        ELSE 0]_vars

\* C22 witness: after mark_green of north with cooldown_duration 2 and a
\* tick of more than one second, west has waited that long, north has not
\* waited and north's cooldown has run out.
C22_TickedAfterGreen ==
    /\ call.op = "tick"
    /\ call.delta > 1
    /\ state_store.cooldown_duration = 2
    /\ state_store.current_green = Some("north")
    /\ state_store.lanes = <<"north", "west">>
    /\ state_store.waiting_times["west"] = call.delta
    /\ state_store.waiting_times["north"] = 0
    /\ state_store.cooldowns["north"] = 0

\* C23 (SpecStore): ensure_lanes(L) appends the lanes of L that are not yet
\* tracked, each with waiting time 0 and cooldown 0, keeps the order, the
\* waiting times and the cooldowns of the lanes already tracked and
\* current_green, and a second call with the same L changes nothing.
C23_EnsureLanesEffect ==
    [][call'.op = "ensure_lanes" =>
          LET old == state_store.lanes
              new == state_store'.lanes
          IN  /\ Len(old) <= Len(new)
              /\ SubSeq(new, 1, Len(old)) = old
              /\ Range(new) = Range(old) \cup Range(call'.lanes)
              /\ Cardinality(Range(new)) = Len(new)
              /\ DOMAIN state_store'.waiting_times = Range(new)
              /\ DOMAIN state_store'.cooldowns = Range(new)
              /\ \A l \in Range(new) :
                     IF l \in Range(old)
                     THEN /\ state_store'.waiting_times[l] = state_store.waiting_times[l]
                          /\ state_store'.cooldowns[l] = state_store.cooldowns[l]
                     ELSE /\ state_store'.waiting_times[l] = 0
                          /\ state_store'.cooldowns[l] = 0
              /\ state_store'.current_green = state_store.current_green
              /\ state_store'.current_green_started_at =
                     state_store.current_green_started_at
              /\ ensure_lanes(state_store', call'.lanes) = state_store']_vars

\* C23 witness: ensure_lanes was given a tracked lane that had waited and
\* was cooling down, together with a lane that starts at 0, while north was green.
C23_EnsuredBesideWaitingLane ==
    /\ call.op = "ensure_lanes"
    /\ call.lanes = <<"west", "east">>
    /\ state_store.lanes = <<"north", "west", "east">>
    /\ state_store.current_green = Some("north")
    /\ state_store.waiting_times["west"] > 0
    /\ state_store.cooldowns["west"] > 0
    /\ state_store.waiting_times["east"] = 0

\* C24 (Spec): the first step after construction or reset applies no tick;
\* every later step whose now is greater than the previous step's now adds
\* exactly now - previous now to the waiting time of every lane that is not
\* green and takes it off every cooldown (down to 0), whatever the step's
\* outcome; only the lane a new decision turns green is then set to waiting
\* time 0 and cooldown cooldown_duration.
C24_TickPerStep ==
    [][call'.op = "step" =>
          LET d == IF IsNone(service.last_tick_at) THEN 0
                   ELSE IF call'.now > Get(service.last_tick_at)
                        THEN call'.now - Get(service.last_tick_at)
                        ELSE 0
              chosen == IF call'.outcome = "decision"
                        THEN {Get(call'.decision).green_lane}
                        ELSE {}
          IN  /\ service'.last_tick_at = Some(call'.now)
              /\ \A l \in Range(state_store.lanes) \ chosen :
                     /\ state_store'.waiting_times[l] =
                            IF d = 0 THEN state_store.waiting_times[l]
                            ELSE IF state_store.current_green = Some(l) THEN 0
                            ELSE state_store.waiting_times[l] + d
                     /\ state_store'.cooldowns[l] =
                            IF state_store.cooldowns[l] > d
                            THEN state_store.cooldowns[l] - d
                            ELSE 0
              /\ \A l \in chosen :
                     /\ state_store'.waiting_times[l] = 0
                     /\ state_store'.cooldowns[l] = state_store.cooldown_duration]_vars

\* C24 witness: a step that ended stale came MaxWait seconds after the
\* previous step and moved a lane's waiting time by as much.
C24_StaleStepTicked ==
    /\ call.op = "step"
    /\ call.outcome = "stale"
    /\ call.now = MaxWait
    /\ \E l \in DOMAIN state_store.waiting_times :
           state_store.waiting_times[l] = MaxWait

\* C28 (Spec): in every reachable state every waiting time, cooldown and
\* quiet-gap is >= 0, the status reports remaining_seconds >= 0 for every
\* now, every decision has effective_until >= effective_from, and every
\* number a division produced has a non-zero divisor.
C28_NoNegativeTimes ==
    /\ \A l \in DOMAIN state_store.waiting_times : state_store.waiting_times[l] >= 0
    /\ \A l \in DOMAIN state_store.cooldowns : state_store.cooldowns[l] >= 0
    /\ \A l \in DOMAIN service.lane_gaps : service.lane_gaps[l] >= 0
    /\ \A now \in Times : RLe(FromInt(0), status_of(Sys, now).remaining_seconds)
    /\ persistence.state_file.kind = "json" =>
           RLe(FromInt(0), persistence.state_file.content.remaining_seconds)
    /\ \A i \in 1..Len(service.history) :
           LET decision == service.history[i]
           IN  /\ RLe(FromInt(decision.effective_from), decision.effective_until)
               /\ decision.green_duration.d > 0
               /\ \A k \in 1..Len(decision.priorities) :
                      decision.priorities[k].score.d > 0
    /\ \A l \in DOMAIN service.lane_arrival_rate : service.lane_arrival_rate[l].d > 0
    /\ \A l \in DOMAIN service.lane_forecast : service.lane_forecast[l].d > 0
    /\ call.op = "step" =>
           call.outcome \in {"decision", "no_new_decision", "no_telemetry", "stale",
                             "empty_priorities"}

\* C28 witness: a step was made with a now earlier than the active
\* decision, which had been taken with all vehicle counts at 0.
C28_ClockWentBackwards ==
    /\ call.op = "step"
    /\ call.outcome = "no_new_decision"
    /\ call.now < Get(service.active_decision).decided_at
    /\ SumCounts(Get(service.active_decision).priorities) = 0
    /\ Len(Get(service.active_decision).priorities) >= 2

\* C25 (SpecReads): predict_next returns nothing while no decision has been
\* made since construction or the last reset; otherwise it returns the
\* highest-ranked entry of the latest decision's priorities whose lane is not
\* that decision's green lane, or the top entry when every ranked lane is the
\* green lane.
C25_PredictNext ==
    call.op = "predict_next" =>
        IF Len(service.history) = 0 THEN call.result = None
        ELSE LET latest == service.history[Len(service.history)]
                 ranked == latest.priorities
                 others == {i \in 1..Len(ranked) : ranked[i].lane # latest.green_lane}
             IN  /\ call.result # None
                 /\ IF others = {} THEN Get(call.result) = ranked[1]
                    ELSE \E i \in others :
                             /\ \A j \in others : i <= j
                             /\ Get(call.result) = ranked[i]

\* C25 witness: with a single tracked lane predict_next returned the green lane.
C25_PredictedOnlyLane ==
    /\ call.op = "predict_next"
    /\ call.result # None
    /\ Get(call.result).lane = Get(service.active_decision).green_lane
    /\ Len(state_store.lanes) = 1

\* C27 (SpecReads): status(now), metrics(), history() and predict_next()
\* change nothing in the controller: not the store, the service's fields,
\* the scheduler or the persisted files.
C27_ReadsChangeNothing ==
    [][call'.op \in {"status", "metrics", "history", "predict_next"} =>
          /\ state_store' = state_store
          /\ service' = service
          /\ scheduler' = scheduler
          /\ persistence' = persistence]_vars

\* C26: when next_cycle is called again and again with the same two or more
\* lanes, every lane is eventually chosen as green_lane.  The choice depends
\* only on the priorities and on _last_green_lane, so once a green lane comes
\* back under the same priorities the calls repeat from there for ever: by
\* then every lane must have been chosen.
C26_EveryLaneEventuallyGreen ==
    (call.op = "next_cycle" /\ Len(call.priorities) >= 2) =>
        \A i \in 1..Len(returned) : \A j \in 1..Len(returned) :
            (i < j /\ returned[i].green_lane = returned[j].green_lane) =>
                \A k \in 1..Len(call.priorities) :
                    \E m \in 1..j : returned[m].green_lane = call.priorities[k].lane

\* C29: append_history only appends, whatever the history file held before:
\* after append_history(ds) returns, the log is the earlier log followed by
\* ds; a call of append_history that raises and a call of save_state leave
\* every decision of the earlier log in place; only clear_history empties it.
C29_AppendOnly ==
    [][/\ (call'.op = "append_history" /\ ~call'.raised) =>
            /\ Len(call'.decisions) > 0 => persistence'.history_file.kind = "json"
            /\ existing_history(persistence'.history_file) =
                   existing_history(persistence.history_file) \o call'.decisions
       /\ (call'.op = "append_history" /\ call'.raised) =>
            existing_history(persistence'.history_file) = existing_history(persistence.history_file)
       /\ call'.op = "save_state" => persistence'.history_file = persistence.history_file]_vars

\* The timestamps, in file order, of the records of a file that have a
\* parseable timestamp.
C30_ParseableTimestamps(source_file) ==
    IF source_file.kind # "json" THEN <<>>
    ELSE LET stamps == [i \in 1..Len(extract(source_file.content)) |->
                           parse_timestamp(extract(source_file.content)[i].timestamp)]
             parsed == SelectSeq(stamps, LAMBDA t : ~IsNone(t))
         IN  [i \in 1..Len(parsed) |-> Get(parsed[i])]

\* What load_recent returned is the last window_size records with a parseable
\* timestamp, and nothing for a missing or unparseable file.
C30_WindowOfFile ==
    call.op = "load_recent" =>
        LET stamps == C30_ParseableTimestamps(call.source_file)
        IN  /\ Len(call.snapshots) = Min(Len(stamps), call.window_size)
            /\ \A i \in 1..Len(call.snapshots) :
                   call.snapshots[i].timestamp = stamps[Len(stamps) - Len(call.snapshots) + i]
            /\ call.source_file.kind # "json" => call.snapshots = <<>>

\* C30: load_recent returns at most window_size snapshots, the last
\* window_size records with a parseable timestamp, ordered oldest to newest by
\* timestamp whatever the record list, so that the last one has the greatest
\* timestamp; a missing or unparseable file yields the empty sequence.
C30_OldestToNewest ==
    /\ C30_WindowOfFile
    /\ call.op = "load_recent" =>
           \A i \in 1..Len(call.snapshots) : \A j \in 1..Len(call.snapshots) :
               i < j => call.snapshots[i].timestamp <= call.snapshots[j].timestamp

\* C31: a step that ends in the stale-telemetry failure leaves the tracked
\* lanes, the per-lane totals, quiet-gaps, smoothed rates and forecasts and the
\* last observed snapshot as they were before the call.
C31_StaleStepObservesNothing ==
    [][(call'.op = "step" /\ call'.outcome = "stale") =>
          /\ state_store'.lanes = state_store.lanes
          /\ service'.lane_totals = service.lane_totals
          /\ service'.lane_gaps = service.lane_gaps
          /\ service'.lane_arrival_rate = service.lane_arrival_rate
          /\ service'.lane_forecast = service.lane_forecast
          /\ service'.last_snapshot = service.last_snapshot]_vars

\* The lanes _update_lane_activity goes through when the window of the last
\* call is observed: the tracked lanes and the keys of the snapshot.
ObservedLaneSet(store, observed) ==
    Range(store.lanes) \cup DOMAIN observed.lane_counts \cup DOMAIN observed.totals

\* C32: with forecast_horizon > 0, a lane observed Dt > 0 seconds after its
\* previous observation gets the smoothed rate a*(max(Dtotal, 0)/Dt) +
\* (1 - a)*previous, previous being its prior smoothed rate or, the first
\* time, the observed rate itself; its forecast is that rate times the
\* horizon; a is the smoothing factor, within [0, 1].
C32_SmoothedRate ==
    [][(call'.op = "latest_snapshot" /\ ~call'.raised /\ service.forecast_horizon > 0) =>
          LET observed == call'.snapshots[Len(call'.snapshots)]
              a == service.forecast_smoothing
          IN  /\ RLe(FromInt(0), a) /\ RLe(a, FromInt(1))
              /\ \A lane \in ObservedLaneSet(state_store', observed) \cap DOMAIN service.lane_total_timestamp :
                     LET dt == observed.timestamp - service.lane_total_timestamp[lane]
                         dtotal == IF lane \in DOMAIN observed.totals
                                   THEN observed.totals[lane] - service.lane_totals[lane]
                                   ELSE 0
                         rate == Rat(Max(dtotal, 0), dt)
                         previous == IF lane \in DOMAIN service.lane_arrival_rate
                                     THEN service.lane_arrival_rate[lane]
                                     ELSE rate
                         smoothed == RAdd(RMul(a, rate), RMul(RSub(FromInt(1), a), previous))
                     IN  dt > 0 =>
                             /\ lane \in DOMAIN service'.lane_arrival_rate
                             /\ service'.lane_arrival_rate[lane] = smoothed
                             /\ service'.lane_forecast[lane] =
                                    RMul(smoothed, FromInt(service.forecast_horizon))]_vars

\* North was first rated at 2 per second (total 1 to 3 in one second) and is
\* then observed unchanged a second later: with a = 1/2 its rate is 1.
C32_BlendedWithPriorRate ==
    /\ call.op = "latest_snapshot"
    /\ Len(returned) = 3
    /\ returned[1].timestamp = 0 /\ returned[2].timestamp = 1 /\ returned[3].timestamp = 2
    /\ returned[1].totals = [north |-> 1]
    /\ returned[2].totals = [north |-> 3, west |-> 1]
    /\ service.forecast_smoothing = Rat(1, 2)
    /\ "north" \in DOMAIN service.lane_arrival_rate
    /\ service.lane_arrival_rate["north"] = Rat(1, 1)
    /\ service.lane_forecast["north"] = Rat(2, 1)

\* What the claim of C33 says of one lane after the snapshots of log have been
\* observed in turn: whether the lane has been observed, its total (a
\* negative total is read as 0, an absent one as unchanged, an unknown one as
\* 0), when that total last changed (or was first observed), and the gap.
RECURSIVE C33_Track(_, _)
C33_Track(log, lane) ==
    IF Len(log) = 0 THEN [seen |-> FALSE, total |-> 0, changed_at |-> 0, gap |-> 0]
    ELSE LET before == C33_Track(SubSeq(log, 1, Len(log) - 1), lane)
             observed == log[Len(log)]
             tracked == Range(ObserveLanes) \cup UNION {DOMAIN log[i].lane_counts : i \in 1..Len(log)}
             total == IF lane \in DOMAIN observed.totals THEN Max(observed.totals[lane], 0)
                      ELSE before.total
         IN  IF lane \notin tracked \cup DOMAIN observed.totals THEN before
             ELSE IF total # before.total \/ ~before.seen
                  THEN [seen |-> TRUE, total |-> total, changed_at |-> observed.timestamp, gap |-> 0]
             ELSE [seen |-> TRUE, total |-> total, changed_at |-> before.changed_at,
                   gap |-> Max(0, observed.timestamp - before.changed_at)]

C40_SameSnapshotIdempotent ==
    [][(/\ call'.op = "latest_snapshot" /\ ~call'.raised
        /\ Len(returned) > 0
        /\ call'.snapshots[Len(call'.snapshots)] = returned[Len(returned)]) =>
          /\ service'.lane_totals = service.lane_totals
          /\ service'.lane_last_activity = service.lane_last_activity
          /\ service'.lane_gaps = service.lane_gaps
          /\ service'.lane_arrival_rate = service.lane_arrival_rate
          /\ service'.lane_forecast = service.lane_forecast
          /\ service'.lane_total_timestamp = service.lane_total_timestamp
          /\ state_store' = state_store]_vars

\* A snapshot that gave east a smoothed rate and quiet north a gap has been
\* observed a second time.
C40_RatedSnapshotObservedTwice ==
    /\ call.op = "latest_snapshot"
    /\ Len(returned) = 3
    /\ returned[3] = returned[2]
    /\ returned[2].timestamp > returned[1].timestamp
    /\ "east" \in DOMAIN service.lane_arrival_rate
    /\ service.lane_arrival_rate["east"] = Rat(1, 2)
    /\ service.lane_gaps["north"] = 2

\* The largest of the clock values in nows.
LargestNow(nows) == CHOOSE t \in Range(nows) : \A u \in Range(nows) : u <= t

\* C34: whatever the order of the now values passed to step, no lane's
\* waiting_time exceeds the largest now passed so far minus the now of the
\* first step since construction or the last reset.
C34_WaitWithinElapsedTime ==
    Len(returned) > 0 =>
        \A lane \in DOMAIN state_store.waiting_times :
            state_store.waiting_times[lane] <= LargestNow(returned) - returned[1]

\* C35: driven through step and reset, with now values in any order,
\* consecutive decisions of the history never overlap: each one takes effect
\* (effective_from = decided_at) no earlier than the one before it ends.
C35_DecisionsNeverOverlap ==
    \A i \in 1..(Len(service.history) - 1) :
        /\ service.history[i + 1].effective_from = service.history[i + 1].decided_at
        /\ RLe(service.history[i].effective_until, FromInt(service.history[i + 1].effective_from))

\* A second decision was made after a step whose now lay before that of the
\* step before it.
C35_SecondDecisionAfterSkew ==
    /\ Len(service.history) = 2
    /\ Len(returned) = 3
    /\ returned[2] < returned[1]
    /\ call.op = "step" /\ call.outcome = "decision"

\* C36: after any sequence of step and reset calls, failed steps included,
\* the store's current_green is the active decision's green_lane, or both are
\* none; that lane is a tracked lane and is the green_lane of the last
\* history entry whenever the history is not empty.
C36_GreenAgreesWithDecision ==
    /\ IF IsNone(service.active_decision) THEN IsNone(state_store.current_green)
       ELSE /\ state_store.current_green = Some(Get(service.active_decision).green_lane)
            /\ Contains(state_store.lanes, Get(service.active_decision).green_lane)
    /\ Len(service.history) > 0 =>
           /\ ~IsNone(state_store.current_green)
           /\ Get(state_store.current_green) = service.history[Len(service.history)].green_lane

\* A step has failed on stale telemetry while an expired decision was active.
C36_FailedStepAfterDecision ==
    /\ call.op = "step" /\ call.outcome \in {"stale", "no_telemetry"}
    /\ ~IsNone(service.active_decision)
    /\ ~IsNone(state_store.current_green)
    /\ RLe(Get(service.active_decision).effective_until, FromInt(call.now))

\* C37: when a step fails on missing or stale telemetry after the active
\* decision has expired, that decision stays active and its lane stays
\* current_green; status reports the lane as current green with 0 seconds
\* remaining, the lane's waiting_time stays 0 and every other lane's
\* waiting_time grows by the time the step ticked.
C37_ExpiredDecisionKept ==
    [][(/\ call'.op = "step" /\ call'.outcome \in {"stale", "no_telemetry"}
        /\ ~IsNone(service.active_decision)) =>
          LET lane == Get(service.active_decision).green_lane
              after == [store |-> state_store', sched |-> scheduler', svc |-> service',
                        pers |-> persistence', engine |-> Engine]
              ticked == Max(call'.now - Get(service.last_tick_at), 0)
          IN  /\ RLe(Get(service.active_decision).effective_until, FromInt(call'.now))
              /\ service'.active_decision = service.active_decision
              /\ state_store'.current_green = Some(lane)
              /\ status_of(after, call'.now).current_green = Some(lane)
              /\ status_of(after, call'.now).remaining_seconds = FromInt(0)
              /\ state_store'.waiting_times[lane] = 0
              /\ \A other \in DOMAIN state_store.waiting_times \ {lane} :
                     state_store'.waiting_times[other] = state_store.waiting_times[other] + ticked]_vars

\* A step failed after the decision expired and the lanes that are not green
\* have waited through its tick.
C37_WaitedThroughFailedStep ==
    /\ call.op = "step" /\ call.outcome \in {"stale", "no_telemetry"}
    /\ ~IsNone(service.active_decision)
    /\ \E other \in DOMAIN state_store.waiting_times :
           /\ Some(other) # state_store.current_green
           /\ state_store.waiting_times[other] > 0

\* At least one flush of the producer has completed.
C38_Flushed == Len(telemetry.records) > telemetry.flush_counter

\* C38: while the producer rewrites the results file, load_recent returns the
\* complete window of the previous flush or that of the new one; once a record
\* has been flushed, a step never finds the window empty and never reports
\* no-telemetry.
C38_NoTornRead ==
    [][(call'.op = "step" /\ C38_Flushed) =>
          LET flushed == SubSeq(telemetry.records, 1, Len(telemetry.records) - telemetry.flush_counter)
              seen == load_recent(telemetry.results_file, FlushWindow)
          IN  /\ seen \in {load_recent(JsonFile(flush_payload(flushed)), FlushWindow),
                           load_recent(JsonFile(flush_payload(telemetry.records)), FlushWindow)}
              /\ Len(seen) > 0
              /\ call'.outcome # "no_telemetry"]_vars

\* C39: history(limit) returns the min(limit, n) most recent of the n recorded
\* decisions, oldest first, for every limit >= 0 (an empty list for limit 0),
\* all n decisions when limit is omitted, and leaves the stored history as it was.
C39_HistoryWindow ==
    [][call'.op = "history" =>
          LET n == Len(service.history)
              most_recent == IF IsNone(call'.limit) THEN n ELSE Min(Get(call'.limit), n)
          IN  /\ call'.result = SubSeq(service.history, n - most_recent + 1, n)
              /\ service'.history = service.history]_vars

====
